---- MODULE Spec2Model ----
(***************************************************************************)
(* simdive: the dive progression engine (useDiveEngine), the air           *)
(* consumption model (useAirConsumption), the decompression calculator     *)
(* (useDecompression), the frame scheduler the engine drives               *)
(* (requestAnimationFrame / cancelAnimationFrame) and the layout loader    *)
(* (useLayout).                                                            *)
(*                                                                         *)
(* The program computes in IEEE 754 doubles and so does the model: every   *)
(* JavaScript number of the program (times in minutes, depths in metres,   *)
(* pressures in bar, rates, whole counts) is a double, written as the      *)
(* tuple << s, e, a, b, c, d >> of its sign s (0 or 1), the exponent e of  *)
(* its leading bit and its mantissa in four limbs of 14 bits, the leading  *)
(* bit being the top bit of a and the lowest three bits of d being zero:   *)
(*   value = (-1)^s * (a * 2^42 + b * 2^28 + c * 2^14 + d) / 2^55 * 2^e    *)
(* Zero, Inf(s) and NaN have exponents of their own. Num(n) is the double  *)
(* of the integer n, Dec(num, den) the double a decimal literal num / den  *)
(* denotes (Dec(1013, 1000) is 1.013) and ToInt(x) the integer of a whole  *)
(* double. Add, Sub, Mul and Div round to nearest, ties to even; MathExp   *)
(* and MathLog are the exp and log of fdlibm, which the JavaScript engines *)
(* ship. The sign of zero is not kept (the program never divides by a zero *)
(* or prints one) and exponents are not bounded (the program's numbers     *)
(* stay far from the subnormal and the overflow range).                    *)
(*                                                                         *)
(* A time of n seconds in a profile or an argument is the double n / 60    *)
(* (Seconds(n)). Integers of TLA+ are used for what the program does not   *)
(* compute with: indices, frame handles and counters of the model.         *)
(*                                                                         *)
(* lastUpdateTime is kept relative: sinceLastUpdate is the wall time in    *)
(* milliseconds that has passed since the timestamp stored in              *)
(* lastUpdateTime, and -1 stands for lastUpdateTime = 0 (the reference     *)
(* clock reset by play()).                                                 *)
(***************************************************************************)
EXTENDS Integers, Sequences, FiniteSets, TLC

RECURSIVE Call(_)

\* F(v), with v computed once, before F is applied to it: the value of a
\* statement's result, handed to the statements after it.
Strict(v, F(_)) == CHOOSE r \in { F(x) : x \in {v} } : TRUE

\* the value of the last of the statements, each of them worked out after the
\* ones before it
InOrder(statements) == statements[Len(statements)]

\* the array << F(1), ..., F(n) >>, its elements worked out and stored (the
\* elements of a function constructor are worked out anew each time one is
\* read)
Array(n, F(_)) ==
  LET RECURSIVE Build(_, _)
      Build(from, to) ==
        IF from > to THEN << >>
        ELSE IF from = to THEN << F(from) >>
        ELSE Build(from, (from + to) \div 2) \o Build((from + to) \div 2 + 1, to)
  IN Build(1, n)

Null == << >>
Some(x) == << x >>
IsNull(o) == o = << >>

\* --------------------------------------------------- IEEE 754 doubles
B == 2 ^ 14
HalfB == 2 ^ 13
EZero == 0 - 5000
EInf == 0 - EZero
ENaN == EInf + 1

Zero == << 0, EZero, 0, 0, 0, 0 >>
Inf(s) == << s, EInf, 0, 0, 0, 0 >>
NaN == << 0, ENaN, 0, 0, 0, 0 >>
IsZero(x) == x[2] = EZero
IsInf(x) == x[2] = EInf
IsNaN(x) == x[2] = ENaN
IsFinite(x) == x[2] < EInf

\* limb i (0 = lowest) of the mantissa << a, b, c, d >>
Limb(m, i) == IF i > 3 THEN 0 ELSE m[4 - i]

ShiftRightJam(m, n) ==
  IF n = 0 THEN m
  ELSE IF n >= 56 THEN << 0, 0, 0, IF m = << 0, 0, 0, 0 >> THEN 0 ELSE 1 >>
  ELSE LET q == n \div 14
           r == n % 14
           p == 2 ^ r
           up == 2 ^ (14 - r)
           w3 == Limb(m, 3 + q) \div p
           w2 == Limb(m, 2 + q) \div p + (Limb(m, 3 + q) % p) * up
           w1 == Limb(m, 1 + q) \div p + (Limb(m, 2 + q) % p) * up
           w0 == Limb(m, q) \div p + (Limb(m, 1 + q) % p) * up
           lost == Limb(m, q) % p # 0
                     \/ (q >= 1 /\ m[4] # 0)
                     \/ (q >= 2 /\ m[3] # 0)
                     \/ (q >= 3 /\ m[2] # 0)
       IN << w3, w2, w1, IF lost /\ w0 % 2 = 0 THEN w0 + 1 ELSE w0 >>

\* m * 2^k for k < 14, the top limb staying below B
ShiftLeft(m, k) ==
  IF k = 0 THEN m
  ELSE LET p == 2 ^ k
           down == 2 ^ (14 - k)
       IN << m[1] * p + m[2] \div down,
             (m[2] % down) * p + m[3] \div down,
             (m[3] % down) * p + m[4] \div down,
             (m[4] % down) * p >>

\* the mantissa shifted left until its top bit is set, with the shift
RECURSIVE NormLeft(_, _)
NormLeft(m, e) ==
  IF m[1] >= HalfB THEN << e, m >>
  ELSE IF m[1] = 0 THEN NormLeft(<< m[2], m[3], m[4], 0 >>, e - 14)
  ELSE LET k == IF m[1] < 2 THEN 13 ELSE IF m[1] < 4 THEN 12 ELSE IF m[1] < 8 THEN 11
                ELSE IF m[1] < 16 THEN 10 ELSE IF m[1] < 32 THEN 9 ELSE IF m[1] < 64 THEN 8
                ELSE IF m[1] < 128 THEN 7 ELSE IF m[1] < 256 THEN 6 ELSE IF m[1] < 512 THEN 5
                ELSE IF m[1] < 1024 THEN 4 ELSE IF m[1] < 2048 THEN 3
                ELSE IF m[1] < 4096 THEN 2 ELSE 1
       IN << e - k, ShiftLeft(m, k) >>

\* round to nearest, ties to even: the mantissa has 56 bits, of which the
\* lowest three are guard, round and sticky
RoundPack(s, e, m) ==
  LET low == m[4] % 8
      d0 == m[4] - low
      up == low > 4 \/ (low = 4 /\ (m[4] \div 8) % 2 = 1)
  IN IF ~up THEN << s, e, m[1], m[2], m[3], d0 >>
     ELSE IF d0 + 8 < B THEN << s, e, m[1], m[2], m[3], d0 + 8 >>
     ELSE IF m[3] + 1 < B THEN << s, e, m[1], m[2], m[3] + 1, 0 >>
     ELSE IF m[2] + 1 < B THEN << s, e, m[1], m[2] + 1, 0, 0 >>
     ELSE IF m[1] + 1 < B THEN << s, e, m[1] + 1, 0, 0, 0 >>
     ELSE << s, e + 1, HalfB, 0, 0, 0 >>

Mant(x) == << x[3], x[4], x[5], x[6] >>

Neg(x) == IF IsZero(x) \/ IsNaN(x) THEN x ELSE << 1 - x[1], x[2], x[3], x[4], x[5], x[6] >>
MathAbs(x) == << 0, x[2], x[3], x[4], x[5], x[6] >>

\* |x| < |y| for finite or infinite x, y
MagLess(x, y) ==
  IF x[2] # y[2] THEN x[2] < y[2]
  ELSE IF x[3] # y[3] THEN x[3] < y[3]
  ELSE IF x[4] # y[4] THEN x[4] < y[4]
  ELSE IF x[5] # y[5] THEN x[5] < y[5]
  ELSE x[6] < y[6]

Lt(x, y) ==
  IF IsNaN(x) \/ IsNaN(y) THEN FALSE
  ELSE IF x[1] # y[1] THEN x[1] = 1
  ELSE IF x[1] = 0 THEN MagLess(x, y) ELSE MagLess(y, x)
Eq(x, y) == ~IsNaN(x) /\ x = y
Le(x, y) == Lt(x, y) \/ Eq(x, y)
Gt(x, y) == Lt(y, x)
Ge(x, y) == Le(y, x)

\* |x| + ym with sign s: ym is the mantissa of the smaller operand, aligned
\* to the exponent of x
AddAligned(s, x, ym) ==
  LET t0 == x[6] + ym[4]
      t1 == x[5] + ym[3] + t0 \div B
      t2 == x[4] + ym[2] + t1 \div B
      t3 == x[3] + ym[1] + t2 \div B
  IN IF t3 < B THEN RoundPack(s, x[2], << t3, t2 % B, t1 % B, t0 % B >>)
     ELSE LET b == t2 % B
              c == t1 % B
              d == t0 % B
              low == d \div 2 + (c % 2) * HalfB
          IN RoundPack(s, x[2] + 1,
               << t3 \div 2,
                  b \div 2 + (t3 % 2) * HalfB,
                  c \div 2 + (b % 2) * HalfB,
                  IF d % 2 = 1 /\ low % 2 = 0 THEN low + 1 ELSE low >>)

\* |x| + |y| with sign s, for finite nonzero x, y with |x| >= |y|
AddMag(s, x, y) == AddAligned(s, x, ShiftRightJam(Mant(y), x[2] - y[2]))

\* the normalised mantissa n = << exponent, mantissa >> rounded, with sign s
RoundNorm(s, n) == RoundPack(s, n[1], n[2])

\* |x| - ym with sign s: ym is the mantissa of the smaller operand, aligned
\* to the exponent of x
SubAligned(s, x, ym) ==
  LET t0 == x[6] - ym[4]
      t1 == x[5] - ym[3] + t0 \div B
      t2 == x[4] - ym[2] + t1 \div B
      t3 == x[3] - ym[1] + t2 \div B
  IN RoundNorm(s, NormLeft(<< t3, t2 % B, t1 % B, t0 % B >>, x[2]))

\* |x| - |y| with sign s, for finite nonzero x, y with |x| > |y|
SubMag(s, x, y) == SubAligned(s, x, ShiftRightJam(Mant(y), x[2] - y[2]))

\* x + y for finite nonzero x, y with |x| >= |y|
AddOrdered(x, y) ==
  IF x[1] = y[1] THEN AddMag(x[1], x, y)
  ELSE IF Mant(x) = Mant(y) /\ x[2] = y[2] THEN Zero
  ELSE SubMag(x[1], x, y)

Add(x, y) == Call(<< "Add", x, y >>)
AddBody(x, y) ==
  IF IsNaN(x) \/ IsNaN(y) THEN NaN
  ELSE IF IsInf(x) THEN (IF IsInf(y) /\ x[1] # y[1] THEN NaN ELSE x)
  ELSE IF IsInf(y) THEN y
  ELSE IF IsZero(y) THEN x
  ELSE IF IsZero(x) THEN y
  ELSE IF MagLess(x, y) THEN AddOrdered(y, x)
  ELSE AddOrdered(x, y)

Sub(x, y) == Call(<< "Sub", x, y >>)
SubBody(x, y) == Add(x, Neg(y))

Mul(x, y) == Call(<< "Mul", x, y >>)
MulBody(x, y) ==
  IF IsNaN(x) \/ IsNaN(y) THEN NaN
  ELSE IF IsInf(x) \/ IsInf(y)
    THEN (IF IsZero(x) \/ IsZero(y) THEN NaN ELSE Inf((x[1] + y[1]) % 2))
  ELSE IF IsZero(x) \/ IsZero(y) THEN Zero
  ELSE
    LET t0 == x[6] * y[6]
        t1 == x[5] * y[6] + x[6] * y[5] + t0 \div B
        t2 == x[4] * y[6] + x[5] * y[5] + x[6] * y[4] + t1 \div B
        t3 == x[3] * y[6] + x[4] * y[5] + x[5] * y[4] + x[6] * y[3] + t2 \div B
        t4 == x[3] * y[5] + x[4] * y[4] + x[5] * y[3] + t3 \div B
        t5 == x[3] * y[4] + x[4] * y[3] + t4 \div B
        t6 == x[3] * y[3] + t5 \div B
        p7 == t6 \div B
        p6 == t6 % B
        p5 == t5 % B
        p4 == t4 % B
        p3 == t3 % B
        rest == t2 % B # 0 \/ t1 % B # 0 \/ t0 % B # 0
        s == (x[1] + y[1]) % 2
    IN IF p7 >= HalfB
       THEN RoundPack(s, x[2] + y[2] + 1,
              << p7, p6, p5, IF (rest \/ p3 # 0) /\ p4 % 2 = 0 THEN p4 + 1 ELSE p4 >>)
       ELSE LET d == (p4 % HalfB) * 2 + p3 \div HalfB
            IN RoundPack(s, x[2] + y[2],
                 << p7 * 2 + p6 \div HalfB,
                    (p6 % HalfB) * 2 + p5 \div HalfB,
                    (p5 % HalfB) * 2 + p4 \div HalfB,
                    IF (rest \/ p3 % HalfB # 0) /\ d % 2 = 0 THEN d + 1 ELSE d >>)

\* one digit of the long division: the remainder r (four limbs, r < y) is
\* multiplied by B and divided by y; << digit, remainder >>
RECURSIVE DivFix(_, _, _)
DivFix(q, v, y) ==
  \* v: five signed columns, highest first, of r * B - q * y
  LET n0 == v[5] % B
      u1 == v[4] + v[5] \div B
      n1 == u1 % B
      u2 == v[3] + u1 \div B
      n2 == u2 % B
      u3 == v[2] + u2 \div B
      n3 == u3 % B
      top == v[1] + u3 \div B
  IN IF top < 0
     THEN DivFix(q - 1, << top, n3 + y[1], n2 + y[2], n1 + y[3], n0 + y[4] >>, y)
     ELSE << q, << n3, n2, n1, n0 >> >>

DivDigit(r, y) ==
  LET est == (r[1] * B + r[2]) \div y[1]
      q == IF est >= B THEN B - 1 ELSE est
  IN DivFix(q, << r[1], r[2] - q * y[1], r[3] - q * y[2], r[4] - q * y[3], 0 - q * y[4] >>, y)

MantLess(m, n) ==
  IF m[1] # n[1] THEN m[1] < n[1]
  ELSE IF m[2] # n[2] THEN m[2] < n[2]
  ELSE IF m[3] # n[3] THEN m[3] < n[3]
  ELSE m[4] < n[4]

\* the four digits s3, s2, s1, s0 of the long division that starts from the
\* remainder r, and whether a remainder is left: << s3, s2, s1, s0, sticky >>
DivDigits0(s3, s2, s1, s0) ==
  << s3[1], s2[1], s1[1], s0[1], s0[2] # << 0, 0, 0, 0 >> >>
DivDigits1(s3, s2, s1, y) == DivDigits0(s3, s2, s1, DivDigit(s1[2], y))
DivDigits2(s3, s2, y) == DivDigits1(s3, s2, DivDigit(s2[2], y), y)
DivDigits3(s3, y) == DivDigits2(s3, DivDigit(s3[2], y), y)
DivDigits(r, y) == DivDigits3(DivDigit(r, y), y)

\* xm and ym are mantissas with xm >= ym: the quotient has its leading bit
\* at the position of the exponent e
DivBig(s, e, q) ==
  LET low == q[4] \div 2 + (q[3] % 2) * HalfB
      lost == q[4] % 2 = 1 \/ q[5]
  IN RoundPack(s, e,
       << HalfB + q[1] \div 2,
          q[2] \div 2 + (q[1] % 2) * HalfB,
          q[3] \div 2 + (q[2] % 2) * HalfB,
          IF lost /\ low % 2 = 0 THEN low + 1 ELSE low >>)

\* xm < ym: the quotient is one binary place lower
DivSmall(s, e, q) ==
  RoundPack(s, e, << q[1], q[2], q[3], IF q[5] /\ q[4] % 2 = 0 THEN q[4] + 1 ELSE q[4] >>)

\* xm - ym for mantissas xm >= ym
MantSub(xm, ym) ==
  LET t0 == xm[4] - ym[4]
      t1 == xm[3] - ym[3] + t0 \div B
      t2 == xm[2] - ym[2] + t1 \div B
      t3 == xm[1] - ym[1] + t2 \div B
  IN << t3, t2 % B, t1 % B, t0 % B >>

DivMant(s, e, xm, ym) ==
  IF MantLess(xm, ym) THEN DivSmall(s, e - 1, DivDigits(xm, ym))
  ELSE DivBig(s, e, DivDigits(MantSub(xm, ym), ym))

Div(x, y) == Call(<< "Div", x, y >>)
DivBody(x, y) ==
  IF IsNaN(x) \/ IsNaN(y) THEN NaN
  ELSE IF IsInf(x) THEN (IF IsInf(y) THEN NaN ELSE Inf((x[1] + y[1]) % 2))
  ELSE IF IsInf(y) THEN Zero
  ELSE IF IsZero(y) THEN (IF IsZero(x) THEN NaN ELSE Inf(x[1]))
  ELSE IF IsZero(x) THEN Zero
  ELSE DivMant((x[1] + y[1]) % 2, x[2] - y[2], Mant(x), Mant(y))

\* ----------------------------------------------------------- conversions
\* the number with sign s and the normalised mantissa n = << exponent, mantissa >>
Packed(s, n) == << s, n[1], n[2][1], n[2][2], n[2][3], n[2][4] >>
\* the natural number m (m < 2^42) with sign s
NumMag(s, m) == Packed(s, NormLeft(<< m \div (B * B), (m \div B) % B, m % B, 0 >>, 41))
Num(n) == Call(<< "Num", n >>)
NumBody(n) ==
  IF n = 0 THEN Zero
  ELSE IF n < 0 THEN NumMag(1, -n) ELSE NumMag(0, n)

\* the decimal literal num / den (den a power of ten)
Dec(num, den) == Call(<< "Dec", num, den >>)
DecBody(num, den) == Div(Num(num), Num(den))

\* the lowest k bits of limb i (0 = lowest) cleared
ClearLimb(w, i, k) ==
  IF k >= 14 * (i + 1) THEN 0
  ELSE IF k <= 14 * i THEN w
  ELSE (w \div (2 ^ (k - 14 * i))) * (2 ^ (k - 14 * i))

\* x rounded towards zero to a whole number
Trunc(x) ==
  IF ~IsFinite(x) \/ IsZero(x) \/ x[2] >= 52 THEN x
  ELSE IF x[2] < 0 THEN Zero
  ELSE LET k == 55 - x[2]
       IN << x[1], x[2], ClearLimb(x[3], 3, k), ClearLimb(x[4], 2, k),
             ClearLimb(x[5], 1, k), ClearLimb(x[6], 0, k) >>

One == << 0, 0, 8192, 0, 0, 0 >>  \* 1.0
Two == << 0, 1, 8192, 0, 0, 0 >>  \* 2.0
Half == << 0, -1, 8192, 0, 0, 0 >>  \* 0.5

\* Math.floor, Math.ceil, Math.round, Math.abs, Math.min, Math.max
\* t is x rounded towards zero
FloorFrom(x, t) == IF x[1] = 0 \/ t = x THEN t ELSE Sub(t, One)
CeilFrom(x, t) == IF x[1] = 1 \/ t = x THEN t ELSE Add(t, One)
MathFloor(x) == Call(<< "MathFloor", x >>)
MathFloorBody(x) == FloorFrom(x, Trunc(x))
MathCeil(x) == Call(<< "MathCeil", x >>)
MathCeilBody(x) == CeilFrom(x, Trunc(x))
\* t is Math.floor(x)
RoundFrom(x, t) == IF Ge(Sub(x, t), Half) THEN Add(t, One) ELSE t
MathRound(x) == Call(<< "MathRound", x >>)
MathRoundBody(x) == IF ~IsFinite(x) THEN x ELSE RoundFrom(x, MathFloor(x))
MathMin(x, y) == IF IsNaN(x) \/ IsNaN(y) THEN NaN ELSE IF Lt(y, x) THEN y ELSE x
MathMax(x, y) == IF IsNaN(x) \/ IsNaN(y) THEN NaN ELSE IF Lt(x, y) THEN y ELSE x

\* the whole number x (|x| < 2^27) as an integer
ToInt(x) ==
  IF IsZero(x) THEN 0
  ELSE LET n == (x[3] * B + x[4]) \div (2 ^ (27 - x[2]))
       IN IF x[1] = 1 THEN -n ELSE n

\* x * 2^k
Scale(x, k) == IF IsZero(x) \/ ~IsFinite(x) THEN x
               ELSE << x[1], x[2] + k, x[3], x[4], x[5], x[6] >>

LN2 == << 0, -1, 11356, 8575, 8007, 3960 >>  \* 0.6931471805599453
Ln2Hi == << 0, -1, 11356, 8575, 7168, 0 >>  \* 0.6931471803691238
Ln2Lo == << 0, -33, 13427, 14234, 12071, 9136 >>  \* 1.9082149292705877e-10
InvLn2 == << 0, 0, 11818, 9138, 9584, 6128 >>  \* 1.4426950408889634
ExpP1 == << 0, -3, 10922, 10922, 10922, 10736 >>  \* 0.16666666666666602
ExpP2 == << 1, -9, 11650, 13835, 6103, 11416 >>  \* -0.0027777777777015593
ExpP3 == << 0, -14, 8876, 13655, 9403, 12640 >>  \* 6.613756321437934e-05
ExpP4 == << 1, -20, 14202, 8418, 14925, 8072 >>  \* -1.6533902205465252e-06
ExpP5 == << 0, -25, 11374, 13497, 6100, 9856 >>  \* 4.1381367970572385e-08
MathE == << 0, 1, 11134, 1349, 8842, 15176 >>  \* 2.718281828459045
ExpHalfLn2 == << 0, -2, 11356, 8576, 0, 0 >>  \* 0.3465735912322998
ExpThreeHalvesLn2 == << 0, 0, 8517, 6400, 0, 0 >>  \* 1.0397205352783203
ExpTiny == << 0, -28, 8192, 0, 0, 0 >>  \* 3.725290298461914e-09
Lg1 == << 0, -1, 10922, 10922, 10922, 11416 >>  \* 0.6666666666666735
Lg2 == << 0, -2, 13107, 3276, 13055, 4128 >>  \* 0.3999999999940942
Lg3 == << 0, -2, 9362, 4682, 1106, 6856 >>  \* 0.2857142874366239
Lg4 == << 0, -3, 14563, 8846, 12751, 1400 >>  \* 0.22222198432149784
Lg5 == << 0, -3, 11916, 12875, 6496, 7920 >>  \* 0.1818357216161805
Lg6 == << 0, -3, 10036, 1256, 3864, 13560 >>  \* 0.15313837699209373
Lg7 == << 0, -3, 9698, 2415, 10186, 4640 >>  \* 0.14798198605116586
Third == << 0, -2, 10922, 10922, 10922, 10920 >>  \* 0.3333333333333333

\* Math.exp (the exp of fdlibm, which the engine's JavaScript runtime uses).
\* x = hi - lo is the argument reduced by k * ln 2 (k = 0: not reduced),
\* t = x * x and c = x - t * (P1 + t * (P2 + ...))
ExpReduced(k, hi, lo, x) ==
  LET t == Mul(x, x)
      p5 == Mul(t, ExpP5)
      p4 == Mul(t, Add(ExpP4, p5))
      p3 == Mul(t, Add(ExpP3, p4))
      p2 == Mul(t, Add(ExpP2, p3))
      p1 == Mul(t, Add(ExpP1, p2))
      c == Sub(x, p1)
      xc == Mul(x, c)
      y == IF k = 0 THEN Sub(Div(xc, Sub(c, Two)), x)
           ELSE Sub(Sub(lo, Div(xc, Sub(Two, c))), hi)
  IN InOrder(<< t, p5, p4, p3, p2, p1, c, xc, y, Scale(Sub(One, y), k) >>)
ExpFrom(k, hi, lo) == ExpReduced(k, hi, lo, Sub(hi, lo))
\* |x0| >= 1.5 ln 2: k = (int)(invln2 * x0 +- 0.5) and t0 = k as a double
ExpFar(x0, k, t0) == ExpFrom(k, Sub(x0, Mul(t0, Ln2Hi)), Mul(t0, Ln2Lo))
ExpMultiple(x0, k) == ExpFar(x0, k, Num(k))
MathExp(x0) == Call(<< "MathExp", x0 >>)
MathExpBody(x0) ==
  IF IsNaN(x0) THEN NaN
  ELSE IF IsInf(x0) THEN (IF x0[1] = 1 THEN Zero ELSE x0)
  ELSE IF Eq(x0, One) THEN MathE
  ELSE IF Lt(MathAbs(x0), ExpHalfLn2)
    THEN (IF Lt(MathAbs(x0), ExpTiny) THEN Add(One, x0)
          ELSE ExpReduced(0, Zero, Zero, x0))
  ELSE IF Lt(MathAbs(x0), ExpThreeHalvesLn2)
    THEN (IF x0[1] = 1 THEN ExpFrom(-1, Sub(x0, Neg(Ln2Hi)), Neg(Ln2Lo))
          ELSE ExpFrom(1, Sub(x0, Ln2Hi), Ln2Lo))
  ELSE ExpMultiple(x0, ToInt(Trunc(Add(Mul(InvLn2, x0),
                                      IF x0[1] = 1 THEN Neg(Half) ELSE Half))))

\* Math.log (the log of fdlibm); x > 0 is a normal number. x0 = 2^k * (1 + f)
\* with sqrt(2)/2 < 1 + f < sqrt(2), hx the top 20 bits of the mantissa of
\* 1 + f, dk = k as a double, s = f / (2 + f), z = s * s, w = z * z
LogNear(k, dk, f) ==
  LET small == Mul(Mul(f, f), Sub(Half, Mul(Third, f)))
  IN IF IsZero(f)
     THEN (IF k = 0 THEN Zero ELSE Add(Mul(dk, Ln2Hi), Mul(dk, Ln2Lo)))
     ELSE IF k = 0 THEN InOrder(<< small, Sub(f, small) >>)
     ELSE InOrder(<< small, Sub(Mul(dk, Ln2Hi), Sub(Sub(small, Mul(dk, Ln2Lo)), f)) >>)
LogQuotient(hx, k, dk, f, s) ==
  LET z == Mul(s, s)
      w == Mul(z, z)
      o7 == Mul(w, Lg7)
      o5 == Mul(w, Add(Lg5, o7))
      o3 == Mul(w, Add(Lg3, o5))
      t1 == Mul(z, Add(Lg1, o3))
      e6 == Mul(w, Lg6)
      e4 == Mul(w, Add(Lg4, e6))
      t2 == Mul(w, Add(Lg2, e4))
      R == Add(t1, t2)
      hfsq == Mul(Mul(Half, f), f)
      inner == IF hx >= 398458 /\ hx <= 440401    \* 0x6147A <= hx <= 0x6B851
               THEN Mul(s, Add(hfsq, R))
               ELSE Mul(s, Sub(f, R))
      rest == IF hx >= 398458 /\ hx <= 440401
              THEN IF k = 0 THEN Sub(hfsq, inner)
                   ELSE Sub(Sub(hfsq, Add(inner, Mul(dk, Ln2Lo))), f)
              ELSE IF k = 0 THEN inner
                   ELSE Sub(Sub(inner, Mul(dk, Ln2Lo)), f)
  IN InOrder(<< z, w, o7, o5, o3, t1, e6, e4, t2, R, hfsq, inner, rest,
                IF k = 0 THEN Sub(f, rest) ELSE Sub(Mul(dk, Ln2Hi), rest) >>)
LogFrom(hx, k, f) ==
  IF hx >= 1048574 \/ hx = 0       \* |f| < 2^-20
  THEN LogNear(k, Num(k), f)
  ELSE LogQuotient(hx, k, Num(k), f, Div(f, Add(Two, f)))
\* up: (hx + 0x95F64) & 0x100000, the mantissa is taken as a number below 1
LogScaled(x0, hx, up) ==
  LogFrom(hx, x0[2] + (IF up THEN 1 ELSE 0),
          Sub(<< 0, IF up THEN -1 ELSE 0, x0[3], x0[4], x0[5], x0[6] >>, One))
LogMantissa(x0, hx) == LogScaled(x0, hx, hx >= 434332)
MathLog(x0) == Call(<< "MathLog", x0 >>)
MathLogBody(x0) ==
  IF IsNaN(x0) \/ (x0[1] = 1 /\ ~IsZero(x0)) THEN NaN
  ELSE IF IsZero(x0) THEN Inf(1)
  ELSE IF IsInf(x0) THEN x0
  ELSE LogMantissa(x0, (x0[3] - HalfB) * 128 + x0[4] \div 128)

Infinity == Inf(0)
Three == << 0, 1, 12288, 0, 0, 0 >>  \* 3.0
Ten == << 0, 3, 10240, 0, 0, 0 >>  \* 10.0
Sixty == << 0, 5, 15360, 0, 0, 0 >>  \* 60.0
Hundred == << 0, 6, 12800, 0, 0, 0 >>  \* 100.0

\* ------------------------------------------------------------------ units
\* n seconds, in minutes
Seconds(n) == Call(<< "Seconds", n >>)
SecondsBody(n) == Div(Num(n), Sixty)
\* n tenths of a second, in minutes (12.5 s is TenthsOfSecond(125))
TenthsOfSecond(n) == Call(<< "TenthsOfSecond", n >>)
TenthsOfSecondBody(n) == Div(Dec(n, 10), Sixty)
Metres(n) == Num(n)
Bar(n) == Num(n)

\* ----------------------------------------------------- program constants
\* types/dive.ts
WATER_VAPOR_PRESSURE == Dec(627, 10000)
SURFACE_PRESSURE == Dec(1013, 1000)
N2_FRACTION == Dec(79, 100)
METERS_TO_BAR == Dec(1, 10)
MAX_ASCENT_RATE == Ten
SAFETY_STOP_DEPTH == Num(5)
SAFETY_STOP_DURATION == Num(180)
\* the event window of processEvents, 0.1 minute
EventWindow == Dec(1, 10)
\* the safety stop rule of calculateSafetyStopState, metres
SafetyStopMinMaxDepth == Ten
SafetyStopZoneTop == Num(4)
SafetyStopZoneBottom == Num(6)
\* checkWarnings thresholds, bar
LowAirBar == Num(50)
CriticalAirBar == Num(20)
\* loadProfile's playback defaults: speed 1, stepSize 10 s
DefaultSpeed == One
DefaultStepSize == Ten
\* 1 / 60: the replay step of seekTo and stepBackward, updateDiveState's
\* default timeDelta
OneSecond == Div(One, Sixty)

\* ----------------------------------------------------------- the inputs
\* DiveEvent.value is optional: Null when the event has none, else Some(v).
\* time in seconds; message tells whether the event carries one.
Ev(t, ty, v, m) == [time |-> Seconds(t), type |-> ty, value |-> v, message |-> m]
Wp(t, d) == [time |-> Seconds(t), depth |-> Metres(d)]

\* A dive to 15 m with a safety stop zone of 190 s at 5 m.
ProfileStop == Call(<< "ProfileStop" >>)
ProfileStopBody ==
  [ initialTankPressure |-> Bar(200), tankVolume |-> Num(12), sacRate |-> Num(20),
    waypoints |-> << Wp(0, 0), Wp(30, 15), Wp(60, 5), Wp(250, 5), Wp(280, 0) >>,
    events |-> << Ev(58, "safetyStopStart", Null, TRUE) >> ]

\* A short dive to 10 m on a small tank; the events are not listed in
\* schedule order (DiveProfile.events is unordered).
ProfileEvents == Call(<< "ProfileEvents" >>)
ProfileEventsBody ==
  [ initialTankPressure |-> Bar(55), tankVolume |-> Two, sacRate |-> Num(20),
    waypoints |-> << Wp(0, 0), Wp(10, 10), Wp(30, 10), Wp(40, 0) >>,
    events |-> << Ev(14, "airSharing", Null, TRUE),
                  Ev(10, "breathingRateIncrease", Some(Dec(25, 10)), FALSE),
                  Ev(30, "airSharingEnd", Null, TRUE) >> ]

\* A dive to 100 m on a small tank, which ends out of air and with a
\* decompression obligation; two events at the end of the ascent, listed
\* against their schedule.
ProfileDeep == Call(<< "ProfileDeep" >>)
ProfileDeepBody ==
  [ initialTankPressure |-> Bar(240), tankVolume |-> Num(5), sacRate |-> Num(20),
    waypoints |-> << Wp(0, 0), Wp(30, 100), Wp(400, 100), Wp(440, 0) >>,
    events |-> << Ev(440, "rapidAscent", Null, TRUE),
                  Ev(438, "criticalAirWarning", Null, TRUE) >> ]

\* A profile without waypoints, on a tank filled to 207.5 bar, with two
\* events inside the window of time 0, listed against their schedule.
ProfileEmpty == Call(<< "ProfileEmpty" >>)
ProfileEmptyBody ==
  [ initialTankPressure |-> Dec(2075, 10), tankVolume |-> Num(12), sacRate |-> Num(20),
    waypoints |-> << >>,
    events |-> << Ev(4, "lowAirWarning", Null, TRUE),
                  Ev(2, "criticalAirWarning", Null, TRUE) >> ]

\* A shallow dive that comes up from 3 m in 20 s, at 9 m/min.
ProfileGentle == Call(<< "ProfileGentle" >>)
ProfileGentleBody ==
  [ initialTankPressure |-> Bar(200), tankVolume |-> Num(12), sacRate |-> Num(20),
    waypoints |-> << Wp(0, 0), Wp(10, 3), Wp(30, 0) >>,
    events |-> << >> ]

\* A dive to 15 m whose safety stop is interrupted: the diver reaches 5 m,
\* leaves the 4-6 m zone for 8 m and comes back to 5 m.
ProfileReturn == Call(<< "ProfileReturn" >>)
ProfileReturnBody ==
  [ initialTankPressure |-> Bar(200), tankVolume |-> Num(12), sacRate |-> Num(20),
    waypoints |-> << Wp(0, 0), Wp(30, 15), Wp(50, 5), Wp(52, 5), Wp(54, 8),
                     Wp(56, 5), Wp(80, 5), Wp(100, 0) >>,
    events |-> << >> ]

\* A short dive to 10 m that starts on a tank at 50.4 bar, just above the
\* reserve.
ProfileReserve == Call(<< "ProfileReserve" >>)
ProfileReserveBody ==
  [ initialTankPressure |-> Dec(504, 10), tankVolume |-> Num(12), sacRate |-> Num(20),
    waypoints |-> << Wp(0, 0), Wp(10, 10), Wp(20, 0) >>,
    events |-> << >> ]

\* A dive that starts at 12 m (the first waypoint is below the surface) and
\* goes up to a long stay at 5 m.
ProfileDrop == Call(<< "ProfileDrop" >>)
ProfileDropBody ==
  [ initialTankPressure |-> Bar(200), tankVolume |-> Num(12), sacRate |-> Num(20),
    waypoints |-> << Wp(0, 12), Wp(30, 5), Wp(300, 5) >>,
    events |-> << >> ]

\* A short dive to 10 m with two events of the same type scheduled at the
\* same time, 10 s, with different values.
ProfileTwins == Call(<< "ProfileTwins" >>)
ProfileTwinsBody ==
  [ initialTankPressure |-> Bar(200), tankVolume |-> Num(12), sacRate |-> Num(20),
    waypoints |-> << Wp(0, 0), Wp(10, 10), Wp(30, 10), Wp(40, 0) >>,
    events |-> << Ev(10, "breathingRateIncrease", Some(Two), FALSE),
                  Ev(10, "breathingRateIncrease", Some(Three), FALSE) >> ]

Profiles == Call(<< "Profiles" >>)
ProfilesBody == << ProfileStop, ProfileEvents, ProfileDeep, ProfileEmpty, ProfileGentle,
               ProfileReturn, ProfileReserve, ProfileDrop, ProfileTwins >>

\* ------------------------------------------------- useAirConsumption.ts
\* useAirConsumption(initialTankPressure, tankVolume, baseSacRate); sacHistory
\* is kept as the sum of its rates (added in the order of the reduce of
\* averageSacRate, from 0) and its length
UseAirConsumption(initialTankPressure, tankVolume, baseSacRate) == Call(<< "UseAirConsumption", initialTankPressure, tankVolume, baseSacRate >>)
UseAirConsumptionBody(initialTankPressure, tankVolume, baseSacRate) ==
  [ initialTankPressure |-> initialTankPressure,
    tankVolume |-> tankVolume,
    baseSacRate |-> baseSacRate,
    tankPressure |-> initialTankPressure,
    currentSacRate |-> baseSacRate,
    totalAirConsumed |-> Zero,
    sacSum |-> Zero,
    sacCount |-> 0 ]

\* reset: back to the full tank, the baseline rate and an empty sacHistory
Reset(air) == Call(<< "Reset", air >>)
ResetBody(air) ==
  [air EXCEPT !.tankPressure = air.initialTankPressure,
              !.currentSacRate = air.baseSacRate,
              !.totalAirConsumed = Zero,
              !.sacSum = Zero,
              !.sacCount = 0]

GetDepthFactor(depth) == Call(<< "GetDepthFactor", depth >>)
GetDepthFactorBody(depth) ==
  Div(Add(SURFACE_PRESSURE, Mul(depth, METERS_TO_BAR)), SURFACE_PRESSURE)

\* bar consumed in durationMinutes at depth
CalculateConsumption(air, depth, durationMinutes) == Call(<< "CalculateConsumption", air, depth, durationMinutes >>)
CalculateConsumptionBody(air, depth, durationMinutes) ==
  LET depthFactor == GetDepthFactor(depth)
      actualConsumptionRate == Mul(air.currentSacRate, depthFactor)
      litersConsumed == Mul(actualConsumptionRate, durationMinutes)
      barConsumed == Div(litersConsumed, air.tankVolume)
  IN barConsumed

ConsumeAir(air, depth, durationMinutes) == Call(<< "ConsumeAir", air, depth, durationMinutes >>)
ConsumeAirBody(air, depth, durationMinutes) ==
  Strict(CalculateConsumption(air, depth, durationMinutes), LAMBDA consumed :
    [air EXCEPT !.tankPressure = MathMax(Zero, Sub(air.tankPressure, consumed)),
                !.totalAirConsumed = Add(air.totalAirConsumed, consumed),
                !.sacSum = Add(air.sacSum, air.currentSacRate),
                !.sacCount = air.sacCount + 1])

\* whole minutes
CalculateRemainingAirTime(air, depth) == Call(<< "CalculateRemainingAirTime", air, depth >>)
CalculateRemainingAirTimeBody(air, depth) ==
  IF Le(air.tankPressure, Zero) THEN Zero
  ELSE LET depthFactor == GetDepthFactor(depth)
           actualConsumptionRate == Mul(air.currentSacRate, depthFactor)
           remainingLiters == Mul(air.tankPressure, air.tankVolume)
           remainingTime == Div(remainingLiters, actualConsumptionRate)
       IN MathFloor(remainingTime)

AverageSacRate(air) == Call(<< "AverageSacRate", air >>)
AverageSacRateBody(air) ==
  IF air.sacCount = 0 THEN air.baseSacRate ELSE Div(air.sacSum, Num(air.sacCount))

\* event.value || 1.5: a value of 0 or NaN counts as none
ValueOr(value, default) ==
  IF IsNull(value) \/ IsZero(value[1]) \/ IsNaN(value[1]) THEN default ELSE value[1]

\* applyEvent with airSharing doubling the current rate instead of the base
\* rate
ApplyEventCompounding(air, event) ==
  CASE event.type = "breathingRateIncrease" ->
         [air EXCEPT !.currentSacRate =
            Mul(air.baseSacRate, ValueOr(event.value, Dec(15, 10)))]
    [] event.type = "breathingRateDecrease" ->
         [air EXCEPT !.currentSacRate = air.baseSacRate]
    [] event.type = "airSharing" ->
         [air EXCEPT !.currentSacRate = Mul(air.currentSacRate, Two)]
    [] event.type = "airSharingEnd" ->
         [air EXCEPT !.currentSacRate = air.baseSacRate]
    [] OTHER -> air

ApplyEvent(air, event) == Call(<< "ApplyEvent", air, event >>)
ApplyEventBody(air, event) ==
  CASE event.type = "breathingRateIncrease" ->
         [air EXCEPT !.currentSacRate =
            Mul(air.baseSacRate, ValueOr(event.value, Dec(15, 10)))]
    [] event.type = "breathingRateDecrease" ->
         [air EXCEPT !.currentSacRate = air.baseSacRate]
    [] event.type = "airSharing" ->
         [air EXCEPT !.currentSacRate = Mul(air.baseSacRate, Two)]
    [] event.type = "airSharingEnd" ->
         [air EXCEPT !.currentSacRate = air.baseSacRate]
    [] OTHER -> air

\* tankPressure and airConsumed are published rounded to whole bar
GetAirState(air, depth) == Call(<< "GetAirState", air, depth >>)
GetAirStateBody(air, depth) ==
  [ initialTankPressure |-> air.initialTankPressure,
    tankPressure |-> MathRound(air.tankPressure),
    remainingAirTime |-> CalculateRemainingAirTime(air, depth),
    currentSacRate |-> air.currentSacRate,
    averageSacRate |-> AverageSacRate(air),
    airConsumed |-> MathRound(air.totalAirConsumed) ]

CheckWarnings(air) == Call(<< "CheckWarnings", air >>)
CheckWarningsBody(air) ==
  [ lowAir |-> Le(air.tankPressure, LowAirBar),
    criticalAir |-> Le(air.tankPressure, CriticalAirBar) ]

\* ---------------------------------------------------- useDecompression.ts
\* BUHLMANN_ZHL16C; halfTime in tenths of a minute, a and b in ten-thousandths
Compartment(h, a, b) == [halfTime |-> Dec(h, 10), a |-> Dec(a, 10000), b |-> Dec(b, 10000)]
BUHLMANN_ZHL16C == Call(<< "BUHLMANN_ZHL16C" >>)
BUHLMANN_ZHL16CBody ==
  << Compartment(40, 12599, 5050),
     Compartment(80, 10000, 6514),
     Compartment(125, 8618, 7222),
     Compartment(185, 7562, 7825),
     Compartment(270, 6200, 8126),
     Compartment(383, 5043, 8434),
     Compartment(543, 4410, 8693),
     Compartment(770, 4000, 8910),
     Compartment(1090, 3750, 9092),
     Compartment(1460, 3500, 9222),
     Compartment(1870, 3295, 9319),
     Compartment(2390, 3065, 9403),
     Compartment(3050, 2835, 9477),
     Compartment(3900, 2610, 9544),
     Compartment(4980, 2480, 9602),
     Compartment(6350, 2327, 9653) >>
NumCompartments == Len(BUHLMANN_ZHL16C)
Compartments == 1 .. NumCompartments

\* k = Math.LN2 / halfTime of each compartment
DecayConstants == Call(<< "DecayConstants" >>)
DecayConstantsBody == Array(NumCompartments, LAMBDA i : Div(LN2, BUHLMANN_ZHL16C[i].halfTime))

\* 1 - Math.exp(-k * time), the fraction of the gradient a compartment takes
\* up in the given time
Saturation(i, time) == Call(<< "Saturation", i, time >>)
SaturationBody(i, time) == Sub(One, MathExp(Mul(Neg(DecayConstants[i]), time)))

\* the time steps the engine and the stop simulation usually take (1 s, the
\* steps of 10 s and 180 s back and forth, a frame of a second at half and at
\* ten times the speed, the minute of the stop simulation), with their
\* fractions worked out once
UsualTimes == Call(<< "UsualTimes" >>)
UsualTimesBody ==
  { Zero, One, OneSecond, Div(Ten, Sixty), Div(Num(-10), Sixty), Div(Num(180), Sixty),
    Div(Half, Sixty) }
SaturationTable == Call(<< "SaturationTable" >>)
SaturationTableBody ==
  [time \in UsualTimes |-> Array(NumCompartments, LAMBDA i : Saturation(i, time))] @@ << >>

\* the fractions of the sixteen compartments for a time step
Saturations(time) == Call(<< "Saturations", time >>)
SaturationsBody(time) ==
  IF time \in UsualTimes THEN SaturationTable[time]
  ELSE Array(NumCompartments, LAMBDA i : Saturation(i, time))

\* surfaceN2Pressure
SurfaceN2Pressure == Mul(Sub(SURFACE_PRESSURE, WATER_VAPOR_PRESSURE), N2_FRACTION)

\* the calculator useDecompression(gfLow, gfHigh) returns: the N2 pressure of
\* each compartment and the two gradient factors
UseDecompression(gfLow, gfHigh) == Call(<< "UseDecompression", gfLow, gfHigh >>)
UseDecompressionBody(gfLow, gfHigh) ==
  [ tissues |-> Array(NumCompartments, LAMBDA i : SurfaceN2Pressure),
    gradientFactorLow |-> gfLow,
    gradientFactorHigh |-> gfHigh ]

GetAmbientPressure(depth) == Call(<< "GetAmbientPressure", depth >>)
GetAmbientPressureBody(depth) == Add(SURFACE_PRESSURE, Mul(depth, METERS_TO_BAR))

\* getInspiredN2Pressure without the water vapour of the lungs
GetInspiredN2PressureDry(depth) ==
  Mul(GetAmbientPressure(depth), N2_FRACTION)

GetInspiredN2Pressure(depth) == Call(<< "GetInspiredN2Pressure", depth >>)
GetInspiredN2PressureBody(depth) ==
  Mul(Sub(GetAmbientPressure(depth), WATER_VAPOR_PRESSURE), N2_FRACTION)

\* the Schreiner equation, 1 - Math.exp(-k * time) handed in as `saturation`
TissueLoading(initialPressure, inspiredPressure, saturation) == Call(<< "TissueLoading", initialPressure, inspiredPressure, saturation >>)
TissueLoadingBody(initialPressure, inspiredPressure, saturation) ==
  Add(initialPressure, Mul(Sub(inspiredPressure, initialPressure), saturation))

\* calculateTissueLoading; the compartment index stands for its halfTime
CalculateTissueLoading(initialPressure, inspiredPressure, i, time) == Call(<< "CalculateTissueLoading", initialPressure, inspiredPressure, i, time >>)
CalculateTissueLoadingBody(initialPressure, inspiredPressure, i, time) ==
  TissueLoading(initialPressure, inspiredPressure, Saturations(time)[i])

GetMValue(i, depth) == Call(<< "GetMValue", i, depth >>)
GetMValueBody(i, depth) ==
  Add(BUHLMANN_ZHL16C[i].a, Div(GetAmbientPressure(depth), BUHLMANN_ZHL16C[i].b))

\* getGFMValue with the gradient factor rising with depth, from gfLow at the
\* surface to gfHigh at the first stop
GetGFMValueRising(d, i, depth, firstStopDepth) ==
  LET currentMValue == GetMValue(i, depth)
      gf == IF Le(firstStopDepth, Zero) THEN d.gradientFactorHigh
            ELSE LET depthRatio == Div(depth, firstStopDepth)
                 IN Add(d.gradientFactorLow,
                        Mul(Sub(d.gradientFactorHigh, d.gradientFactorLow), depthRatio))
      ambientPressure == GetAmbientPressure(depth)
  IN Add(ambientPressure, Mul(gf, Sub(currentMValue, ambientPressure)))

GetGFMValue(d, i, depth, firstStopDepth) == Call(<< "GetGFMValue", d, i, depth, firstStopDepth >>)
GetGFMValueBody(d, i, depth, firstStopDepth) ==
  LET currentMValue == GetMValue(i, depth)
      gf == IF Le(firstStopDepth, Zero) THEN d.gradientFactorHigh
            ELSE LET depthRatio == Div(depth, firstStopDepth)
                 IN Add(d.gradientFactorHigh,
                        Mul(Sub(d.gradientFactorLow, d.gradientFactorHigh), depthRatio))
      ambientPressure == GetAmbientPressure(depth)
  IN Add(ambientPressure, Mul(gf, Sub(currentMValue, ambientPressure)))

\* the loop of calculateCeiling over the compartments from .. to, entered with
\* maxCeiling. The iterations run in the loop's order; the range is halved,
\* and the first half computed before the second starts (see Strict), so that
\* the evaluation depth stays logarithmic in the number of iterations.
RECURSIVE CeilingFrom(_, _, _, _)
CeilingFrom(d, from, to, maxCeiling) ==
  IF from > to THEN maxCeiling
  ELSE IF from = to
  THEN LET tissue == BUHLMANN_ZHL16C[from]
           ambientPressure == Mul(tissue.b, Sub(d.tissues[from], tissue.a))
           depth == Div(Sub(ambientPressure, SURFACE_PRESSURE), METERS_TO_BAR)
       IN Strict(Div(depth, d.gradientFactorLow), LAMBDA gfAdjustedDepth :
            IF Gt(gfAdjustedDepth, maxCeiling) THEN gfAdjustedDepth ELSE maxCeiling)
  ELSE Strict(CeilingFrom(d, from, (from + to) \div 2, maxCeiling), LAMBDA deepest :
         CeilingFrom(d, (from + to) \div 2 + 1, to, deepest))

\* ambientPressure = b * (pN2 - a) of the compartments from .. to: the largest
\* of them and of `largest`
RECURSIVE LargestTolerated(_, _, _, _)
LargestTolerated(d, from, to, largest) ==
  IF from > to THEN largest
  ELSE IF from = to
  THEN LET tissue == BUHLMANN_ZHL16C[from]
       IN Strict(Mul(tissue.b, Sub(d.tissues[from], tissue.a)), LAMBDA ambientPressure :
            IF Gt(ambientPressure, largest) THEN ambientPressure ELSE largest)
  ELSE Strict(LargestTolerated(d, from, (from + to) \div 2, largest), LAMBDA firstHalf :
         LargestTolerated(d, (from + to) \div 2 + 1, to, firstHalf))

\* calculateCeiling, whole metres. With gradientFactorLow > 0 the loop's
\* gfAdjustedDepth = (ambientPressure - SURFACE_PRESSURE) / METERS_TO_BAR /
\* gradientFactorLow does not decrease when ambientPressure grows (each of
\* the three operations rounds monotonically), so the maxCeiling the loop
\* ends with is the gfAdjustedDepth of the largest ambientPressure when that
\* is above 0, and 0 otherwise; the two divisions are then made once instead
\* of sixteen times. Otherwise the loop is run as written.
CalculateCeiling(d) == Call(<< "CalculateCeiling", d >>)
CalculateCeilingBody(d) ==
  IF Gt(d.gradientFactorLow, Zero)
  THEN LET ambientPressure == LargestTolerated(d, 1, NumCompartments, Inf(1))
           gfAdjustedDepth ==
             Div(Div(Sub(ambientPressure, SURFACE_PRESSURE), METERS_TO_BAR),
                 d.gradientFactorLow)
       IN InOrder(<< ambientPressure, gfAdjustedDepth,
            MathMax(Zero, MathCeil(IF Gt(gfAdjustedDepth, Zero) THEN gfAdjustedDepth
                                   ELSE Zero)) >>)
  ELSE MathMax(Zero, MathCeil(CeilingFrom(d, 1, NumCompartments, Zero)))

\* a + SURFACE_PRESSURE / b, the M-value of each compartment at the surface
SurfaceMValues ==
  Array(NumCompartments,
        LAMBDA i : Add(BUHLMANN_ZHL16C[i].a, Div(SURFACE_PRESSURE, BUHLMANN_ZHL16C[i].b)))

\* the M-value at the surface with the high gradient factor applied
SurfaceGFMValue(d, i) == Call(<< "SurfaceGFMValue", d, i >>)
SurfaceGFMValueBody(d, i) ==
  Add(SURFACE_PRESSURE, Mul(d.gradientFactorHigh, Sub(SurfaceMValues[i], SURFACE_PRESSURE)))

\* the minutes compartment i takes to reach its limit
TimeToLimit(d, i, inspiredN2) == Call(<< "TimeToLimit", d, i, inspiredN2 >>)
TimeToLimitBody(d, i, inspiredN2) ==
  Div(Neg(MathLog(Div(Sub(inspiredN2, SurfaceGFMValue(d, i)),
                      Sub(inspiredN2, d.tissues[i])))),
      DecayConstants[i])

\* the loop of calculateNDL over the compartments from .. to, entered with
\* Some(minNDL): Some(minNDL) after it, or Null when a compartment is at its
\* limit already (return 0). The range is halved as in CeilingFrom.
RECURSIVE NDLFrom(_, _, _, _, _)
NDLFrom(d, inspiredN2, from, to, minNDL) ==
  IF from > to \/ IsNull(minNDL) THEN minNDL
  ELSE IF from = to
  THEN Strict(SurfaceGFMValue(d, from), LAMBDA gfMValue :
         IF Ge(d.tissues[from], gfMValue) THEN Null
         ELSE IF Le(inspiredN2, gfMValue) THEN minNDL
         ELSE Strict(TimeToLimit(d, from, inspiredN2), LAMBDA ndl :
                IF Lt(ndl, minNDL[1]) THEN Some(ndl) ELSE minNDL))
  ELSE Strict(NDLFrom(d, inspiredN2, from, (from + to) \div 2, minNDL), LAMBDA least :
         NDLFrom(d, inspiredN2, (from + to) \div 2 + 1, to, least))

NoLimit == Num(999)
CalculateNDL(d, depth) == Call(<< "CalculateNDL", d, depth >>)
CalculateNDLBody(d, depth) ==
  IF Le(depth, Zero) THEN Infinity
  ELSE Strict(NDLFrom(d, GetInspiredN2Pressure(depth), 1, NumCompartments, Some(Infinity)),
              LAMBDA minNDL :
         IF IsNull(minNDL) THEN Zero
         ELSE IF minNDL[1] = Infinity THEN NoLimit
         ELSE MathFloor(minNDL[1]))

\* The compartments are objects: a loop that assigns tissue.pN2 changes the
\* object for every array that holds it. In a query, `heap` is the pN2 of
\* every compartment object made so far, an object is known by its place in
\* heap, and an array of compartments is the sequence of the places of its
\* objects. A query starts on the heap d.tissues, in which tissues.value
\* holds the objects 1 .. NumCompartments (LiveTissues), and it leaves
\* tissues.value with the pN2 these objects have in the heap it ends on
\* (Live).
LiveTissues == Array(NumCompartments, LAMBDA i : i)
Live(heap) == Call(<< "Live", heap >>)
LiveBody(heap) == Array(NumCompartments, LAMBDA i : heap[LiveTissues[i]])
\* the calculator a query leaves, from the heap it ends on
After(d, heap) == Call(<< "After", d, heap >>)
AfterBody(d, heap) == [d EXCEPT !.tissues = Live(heap)]

\* simTissues holding the objects of tissues.value themselves (no copy)
CloneTissuesShared(heap, tissues) == [heap |-> heap, simTissues |-> tissues]

\* simTissues = tissues.value.map((t) => ({ ...t })): a new object for every
\* compartment, with the pN2 of the one it copies
CloneTissues(heap, tissues) == Call(<< "CloneTissues", heap, tissues >>)
CloneTissuesBody(heap, tissues) ==
  [ heap |-> heap \o Array(Len(tissues), LAMBDA i : heap[tissues[i]]),
    simTissues |-> Array(Len(tissues), LAMBDA i : Len(heap) + i) ]

\* for (const tissue of simTissues) tissue.pN2 = calculateTissueLoading(
\* tissue.pN2, inspiredN2, tissue.halfTime, 1), from the i-th compartment of
\* simTissues on: the heap after the loop
RECURSIVE SimulateMinute(_, _, _, _, _)
SimulateMinute(heap, simTissues, inspiredN2, saturation, i) ==
  IF i > Len(simTissues) THEN heap
  ELSE Strict([heap EXCEPT ![simTissues[i]] =
                 TissueLoading(heap[simTissues[i]], inspiredN2, saturation[i])],
              LAMBDA assigned :
                SimulateMinute(assigned, simTissues, inspiredN2, saturation, i + 1))

\* One turn of the loop that waits at a stop: it ends the wait when no
\* compartment of simTissues is over its limit at the next stop, else
\* simulates a minute and gives up after more than MaxStopTime of them.
MaxStopTime == Num(120)
StopMinute(wait, simTissues, limits, inspiredN2) == Call(<< "StopMinute", wait, simTissues, limits, inspiredN2 >>)
StopMinuteBody(wait, simTissues, limits, inspiredN2) ==
  IF wait.done THEN wait
  ELSE IF \A i \in Compartments : ~Gt(wait.heap[simTissues[i]], limits[i])
    THEN [wait EXCEPT !.done = TRUE]
  ELSE LET stopTime == Add(wait.duration, One)
           saturation == Saturations(One)
       IN InOrder(<< stopTime, saturation,
            [ duration |-> stopTime,
              heap |-> SimulateMinute(wait.heap, simTissues, inspiredN2, saturation, 1),
              done |-> Gt(stopTime, MaxStopTime) ] >>)

\* n turns of that loop, in the loop's order (the turns are halved so that
\* the evaluation depth stays logarithmic)
RECURSIVE StopMinutes(_, _, _, _, _)
StopMinutes(wait, simTissues, limits, inspiredN2, n) ==
  IF wait.done \/ n = 0 THEN wait
  ELSE IF n = 1 THEN StopMinute(wait, simTissues, limits, inspiredN2)
  ELSE Strict(StopMinutes(wait, simTissues, limits, inspiredN2, n \div 2), LAMBDA half :
         StopMinutes(half, simTissues, limits, inspiredN2, n - n \div 2))

\* the minutes spent at one stop and the heap at its end; the loop has ended
\* after MaxStopTime + 2 turns at the latest
StopTime(heap, simTissues, limits, inspiredN2) == Call(<< "StopTime", heap, simTissues, limits, inspiredN2 >>)
StopTimeBody(heap, simTissues, limits, inspiredN2) ==
  StopMinutes([duration |-> Zero, heap |-> heap, done |-> FALSE],
              simTissues, limits, inspiredN2, ToInt(MaxStopTime) + 2)

\* the loop over the stops from stopDepth on: the stops pushed and the heap
\* when it is left
RECURSIVE StopsFrom(_, _, _, _, _, _)
StopsFrom(d, heap, simTissues, stopDepth, firstStopDepth, stops) ==
  IF ~Ge(stopDepth, Three) THEN [stops |-> stops, heap |-> heap]
  ELSE Strict(Array(NumCompartments, LAMBDA i :
                 GetGFMValue(d, i, Sub(stopDepth, Three), firstStopDepth)),
         LAMBDA limits :
       Strict(StopTime(heap, simTissues, limits, GetInspiredN2Pressure(stopDepth)),
         LAMBDA stop :
           StopsFrom(d, stop.heap, simTissues, Sub(stopDepth, Three), firstStopDepth,
                     IF Gt(stop.duration, Zero)
                     THEN Append(stops, [depth |-> stopDepth, duration |-> stop.duration])
                     ELSE stops)))

\* calculateDecoStops: the stops it returns and the heap it leaves
DecoStopsRun(d, currentDepth) == Call(<< "DecoStopsRun", d, currentDepth >>)
DecoStopsRunBody(d, currentDepth) ==
  LET ceiling == CalculateCeiling(d)
      firstStopDepth == Mul(MathCeil(Div(ceiling, Three)), Three)
      clone == CloneTissues(d.tissues, LiveTissues)
  IN InOrder(<< ceiling,
       IF Le(ceiling, Zero) THEN [stops |-> << >>, heap |-> d.tissues]
       ELSE InOrder(<< firstStopDepth, clone,
              StopsFrom(d, clone.heap, clone.simTissues, firstStopDepth, firstStopDepth,
                        << >>) >>) >>)

CalculateDecoStops(d, currentDepth) == Call(<< "CalculateDecoStops", d, currentDepth >>)
CalculateDecoStopsBody(d, currentDepth) == DecoStopsRun(d, currentDepth).stops

\* decoStops.reduce((sum, stop) => sum + stop.duration, 0), from stop k on
RECURSIVE SumDurations(_, _, _)
SumDurations(stops, k, sum) ==
  IF k > Len(stops) THEN sum ELSE SumDurations(stops, k + 1, Add(sum, stops[k].duration))

\* calculateTTS, minutes at the ascent rate of 10 m/min: what it returns and
\* the heap it leaves
TTSRun(d, currentDepth) == Call(<< "TTSRun", d, currentDepth >>)
TTSRunBody(d, currentDepth) ==
  LET ceiling == CalculateCeiling(d)
      run == DecoStopsRun(d, currentDepth)
      decoStops == run.stops
      ascentRate == Ten
      ascentTime == Div(Sub(currentDepth, ceiling), ascentRate)
      decoTime == SumDurations(decoStops, 1, Zero)
      lastStopDepth == IF decoStops = << >> THEN ceiling
                       ELSE decoStops[Len(decoStops)].depth
      finalAscent == Div(lastStopDepth, ascentRate)
  IN InOrder(<< ceiling, run, ascentTime, decoTime, finalAscent,
                [ tts |-> MathCeil(Add(Add(ascentTime, decoTime), finalAscent)),
                  heap |-> run.heap ] >>)

CalculateTTS(d, currentDepth) == Call(<< "CalculateTTS", d, currentDepth >>)
CalculateTTSBody(d, currentDepth) == TTSRun(d, currentDepth).tts

UpdateTissues(d, depth, time) == Call(<< "UpdateTissues", d, depth, time >>)
UpdateTissuesBody(d, depth, time) ==
  LET inspiredN2 == GetInspiredN2Pressure(depth)
      saturation == Saturations(time)
  IN InOrder(<< inspiredN2, saturation,
       [d EXCEPT !.tissues =
          Array(NumCompartments, LAMBDA i :
                  TissueLoading(d.tissues[i], inspiredN2, saturation[i]))] >>)

\* resetTissues
ResetTissues(d) == Call(<< "ResetTissues", d >>)
ResetTissuesBody(d) ==
  [d EXCEPT !.tissues = Array(NumCompartments, LAMBDA i : SurfaceN2Pressure)]

\* getDecoState reporting the no-decompression limit below a ceiling too
GetDecoStateRunWithLimit(d, currentDepth) ==
  Strict(CalculateCeiling(d), LAMBDA ceiling :
  Strict(CalculateNDL(d, currentDepth), LAMBDA ndl :
  Strict(IF Gt(ceiling, Zero) THEN DecoStopsRun(d, currentDepth)
         ELSE [stops |-> << >>, heap |-> d.tissues],
         LAMBDA stopsRun :
  Strict(TTSRun(After(d, stopsRun.heap), currentDepth), LAMBDA ttsRun :
    [ state |-> [ tissues |-> Live(ttsRun.heap),
                  ndl |-> ndl,
                  ceiling |-> ceiling,
                  decoStops |-> stopsRun.stops,
                  tts |-> ttsRun.tts,
                  gfLow |-> d.gradientFactorLow,
                  gfHigh |-> d.gradientFactorHigh ],
      calculator |-> After(d, ttsRun.heap) ]))))

\* getDecoState: the DecoState it returns and the calculator it leaves. Each
\* of the calls it makes works on the compartments the one before it left;
\* calculateCeiling and calculateNDL assign nothing.
GetDecoStateRun(d, currentDepth) == Call(<< "GetDecoStateRun", d, currentDepth >>)
GetDecoStateRunBody(d, currentDepth) ==
  Strict(CalculateCeiling(d), LAMBDA ceiling :
  Strict(IF Gt(ceiling, Zero) THEN Neg(One) ELSE CalculateNDL(d, currentDepth),
         LAMBDA ndl :
  Strict(IF Gt(ceiling, Zero) THEN DecoStopsRun(d, currentDepth)
         ELSE [stops |-> << >>, heap |-> d.tissues],
         LAMBDA stopsRun :
  Strict(TTSRun(After(d, stopsRun.heap), currentDepth), LAMBDA ttsRun :
    [ state |-> [ tissues |-> Live(ttsRun.heap),
                  ndl |-> ndl,
                  ceiling |-> ceiling,
                  decoStops |-> stopsRun.stops,
                  tts |-> ttsRun.tts,
                  gfLow |-> d.gradientFactorLow,
                  gfHigh |-> d.gradientFactorHigh ],
      calculator |-> After(d, ttsRun.heap) ]))))

GetDecoState(d, currentDepth) == Call(<< "GetDecoState", d, currentDepth >>)
GetDecoStateBody(d, currentDepth) == GetDecoStateRun(d, currentDepth).state

\* the calculator's tissueSaturationPercentages: pN2 as a percentage of the
\* surface M-value under the high gradient factor, clamped to [0, 100]
TissueSaturationPercentages(d) == Call(<< "TissueSaturationPercentages", d >>)
TissueSaturationPercentagesBody(d) ==
  Array(NumCompartments, LAMBDA i :
    LET saturation == Mul(Div(d.tissues[i], SurfaceGFMValue(d, i)), Hundred)
    IN MathMin(Hundred, MathMax(Zero, saturation)))

\* the default gradient factors of useDecompression
DefaultGFLow == Dec(3, 10)
DefaultGFHigh == Dec(85, 100)

\* ------------------------------------------------------ useDiveEngine.ts
\* the loop of interpolateDepth over the segments, from segment i on
RECURSIVE InterpolateSegments(_, _, _)
InterpolateSegments(time, waypoints, i) ==
  IF i > Len(waypoints) - 1 THEN waypoints[Len(waypoints)].depth
  ELSE LET current == waypoints[i]
           next == waypoints[i + 1]
       IN IF Ge(time, current.time) /\ Le(time, next.time)
          THEN LET progress == Div(Sub(time, current.time), Sub(next.time, current.time))
               IN Add(current.depth, Mul(Sub(next.depth, current.depth), progress))
          ELSE InterpolateSegments(time, waypoints, i + 1)

\* interpolateDepth clamping to the first waypoint only before its time
InterpolateDepthFromStart(time, waypoints) ==
  IF Len(waypoints) = 0 THEN Zero
  ELSE LET first == waypoints[1]
           last == waypoints[Len(waypoints)]
       IN IF Lt(time, first.time) THEN first.depth
          ELSE IF Ge(time, last.time) /\ Gt(time, first.time) THEN last.depth
          ELSE InterpolateSegments(time, waypoints, 1)

\* interpolateDepth: the raw depth at `time`
InterpolateDepth(time, waypoints) == Call(<< "InterpolateDepth", time, waypoints >>)
InterpolateDepthBody(time, waypoints) ==
  IF Len(waypoints) = 0 THEN Zero
  ELSE LET first == waypoints[1]
           last == waypoints[Len(waypoints)]
       IN IF Le(time, first.time) THEN first.depth
          ELSE IF Ge(time, last.time) THEN last.depth
          ELSE InterpolateSegments(time, waypoints, 1)

\* Math.round(currentDepthRaw * 10) / 10
RoundDepth(currentDepthRaw) == Call(<< "RoundDepth", currentDepthRaw >>)
RoundDepthBody(currentDepthRaw) == Div(MathRound(Mul(currentDepthRaw, Ten)), Ten)

\* calculateAscentRate flagging an ascent at exactly the allowed rate
CalculateAscentRateInclusive(previousDepth, currentDepth, timeDelta) ==
  IF Le(timeDelta, Zero)
  THEN [rate |-> Zero, isViolation |-> FALSE, maxAllowedRate |-> MAX_ASCENT_RATE]
  ELSE Strict(Div(Sub(currentDepth, previousDepth), timeDelta), LAMBDA rate :
         LET ascentRate == Neg(rate)
         IN [rate |-> Div(MathRound(Mul(rate, Ten)), Ten),
             isViolation |-> Ge(ascentRate, MAX_ASCENT_RATE),
             maxAllowedRate |-> MAX_ASCENT_RATE])

CalculateAscentRate(previousDepth, currentDepth, timeDelta) == Call(<< "CalculateAscentRate", previousDepth, currentDepth, timeDelta >>)
CalculateAscentRateBody(previousDepth, currentDepth, timeDelta) ==
  IF Le(timeDelta, Zero)
  THEN [rate |-> Zero, isViolation |-> FALSE, maxAllowedRate |-> MAX_ASCENT_RATE]
  ELSE Strict(Div(Sub(currentDepth, previousDepth), timeDelta), LAMBDA rate :
         LET ascentRate == Neg(rate)
         IN [rate |-> Div(MathRound(Mul(rate, Ten)), Ten),
             isViolation |-> Gt(ascentRate, MAX_ASCENT_RATE),
             maxAllowedRate |-> MAX_ASCENT_RATE])

\* calculateSafetyStopState: previousState is Null or Some(state); remaining
\* is in seconds
CalculateSafetyStopState(currentDepth, maxDepthReached, previousState, timeDelta) == Call(<< "CalculateSafetyStopState", currentDepth, maxDepthReached, previousState, timeDelta >>)
CalculateSafetyStopStateBody(currentDepth, maxDepthReached, previousState, timeDelta) ==
  LET needsSafetyStop == Ge(maxDepthReached, SafetyStopMinMaxDepth)
      atSafetyStopDepth == Ge(currentDepth, SafetyStopZoneTop)
                             /\ Le(currentDepth, SafetyStopZoneBottom)
      prevActive == ~IsNull(previousState) /\ previousState[1].active
      completed == prevActive /\ Le(previousState[1].remaining, Zero)
  IN IF needsSafetyStop /\ atSafetyStopDepth
     THEN IF prevActive
          THEN LET elapsedSeconds == Mul(timeDelta, Sixty)
               IN [required |-> TRUE, active |-> TRUE, depth |-> SAFETY_STOP_DEPTH,
                   duration |-> SAFETY_STOP_DURATION,
                   remaining |-> MathMax(Zero, Sub(previousState[1].remaining,
                                                   elapsedSeconds))]
          ELSE [required |-> TRUE, active |-> TRUE, depth |-> SAFETY_STOP_DEPTH,
                duration |-> SAFETY_STOP_DURATION,
                remaining |-> SAFETY_STOP_DURATION]
     ELSE [required |-> needsSafetyStop /\ ~completed, active |-> FALSE,
           depth |-> SAFETY_STOP_DEPTH, duration |-> SAFETY_STOP_DURATION,
           remaining |-> IF completed THEN Zero ELSE SAFETY_STOP_DURATION]

\* event.type.includes('critical') ? 'critical' : includes('Warning') ? ...
EventWarningType(type) ==
  IF type = "criticalAirWarning" THEN "critical"
  ELSE IF type = "lowAirWarning" THEN "warning"
  ELSE "info"

RECURSIVE EventWarnings(_)
EventWarnings(activeEvents) ==
  IF activeEvents = << >> THEN << >>
  ELSE LET event == Head(activeEvents)
       IN (IF event.message
           THEN << [type |-> EventWarningType(event.type), code |-> event.type] >>
           ELSE << >>) \o EventWarnings(Tail(activeEvents))

\* getActiveWarnings with the ceiling tested before the ascent rate
GetActiveWarningsDecoFirst(airWarnings, ascentState, ceiling, activeEvents) ==
  (IF airWarnings.criticalAir THEN << [type |-> "critical", code |-> "CRITICAL_AIR"] >>
   ELSE IF airWarnings.lowAir THEN << [type |-> "warning", code |-> "LOW_AIR"] >>
   ELSE << >>)
  \o (IF Gt(ceiling, Zero)
      THEN << [type |-> "warning", code |-> "DECO_REQUIRED"] >> ELSE << >>)
  \o (IF ascentState.isViolation
      THEN << [type |-> "critical", code |-> "FAST_ASCENT"] >> ELSE << >>)
  \o EventWarnings(activeEvents)

\* getActiveWarnings; the decompression state contributes DECO_REQUIRED when
\* its ceiling is positive
GetActiveWarnings(airWarnings, ascentState, ceiling, activeEvents) == Call(<< "GetActiveWarnings", airWarnings, ascentState, ceiling, activeEvents >>)
GetActiveWarningsBody(airWarnings, ascentState, ceiling, activeEvents) ==
  (IF airWarnings.criticalAir THEN << [type |-> "critical", code |-> "CRITICAL_AIR"] >>
   ELSE IF airWarnings.lowAir THEN << [type |-> "warning", code |-> "LOW_AIR"] >>
   ELSE << >>)
  \o (IF ascentState.isViolation
      THEN << [type |-> "critical", code |-> "FAST_ASCENT"] >> ELSE << >>)
  \o (IF Gt(ceiling, Zero)
      THEN << [type |-> "warning", code |-> "DECO_REQUIRED"] >> ELSE << >>)
  \o EventWarnings(activeEvents)

EventKey(event) == << event.type, event.time >>

\* the test of processEvents without the lookup in the processed-event set
ShouldTriggerInWindow(currentTime, event, processed) ==
  Lt(MathAbs(Sub(currentTime, event.time)), EventWindow)

\* the test of processEvents that lets an event fire
ShouldTrigger(currentTime, event, processed) == Call(<< "ShouldTrigger", currentTime, event, processed >>)
ShouldTriggerBody(currentTime, event, processed) ==
  Lt(MathAbs(Sub(currentTime, event.time)), EventWindow) /\ EventKey(event) \notin processed

\* processEvents, from event i on: acc carries the processed-event set, the
\* air calculator, the active events and (fired) the indices of the events
\* fired so far in this pass
RECURSIVE ProcessEventsFrom(_, _, _, _)
ProcessEventsFrom(currentTime, events, i, acc) ==
  IF i > Len(events) THEN acc
  ELSE LET event == events[i]
       IN IF ShouldTrigger(currentTime, event, acc.processed)
          THEN Strict([processed |-> acc.processed \cup {EventKey(event)},
                       air |-> ApplyEvent(acc.air, event),
                       activeEvents |-> Append(acc.activeEvents, event),
                       fired |-> Append(acc.fired, i)],
                      LAMBDA triggered :
                        ProcessEventsFrom(currentTime, events, i + 1, triggered))
          ELSE ProcessEventsFrom(currentTime, events, i + 1, acc)

ProcessEvents(currentTime, events, processed, air, history) == Call(<< "ProcessEvents", currentTime, events, processed, air, history >>)
ProcessEventsBody(currentTime, events, processed, air, history) ==
  ProcessEventsFrom(currentTime, events, 1,
    [processed |-> processed, air |-> air, activeEvents |-> << >>, fired |-> history])

\* --------------------------------------------------------- engine state
\* The engine as one record e:
\*   currentProfile   0 (null) or the index of the loaded profile
\*   playback         PlaybackControl
\*   diveState        Null or Some(snapshot)
\*   air              the airCalculator: Null or Some(calculator state)
\*   deco             the decoCalculator: Null or Some(calculator state)
\*   animationFrameId 0 (null) or the handle of the last requested frame
\*   sinceLastUpdate  lastUpdateTime, relative (see the head of the module)
\*   processedEvents  the processed-event set
\*   maxDepth         the running maximum of the rounded depth
\*   pending          the browser's list of requested frame callbacks, in
\*                    the order requestAnimationFrame was called
\*   fired            the indices of the events fired since the last
\*                    (re)load, in firing order (history)
\*   applied          the sum of the time deltas updateDiveState has handed
\*                    to the two calculators since the last (re)load, minutes
\*                    (history)
\*   saturations      the engine's computed tissueSaturationPercentages: Null
\*                    while it was never read, else Some of its cached value
\*                    and its standing towards the reactive state it read:
\*                      "fresh"    it read the compartments of the present
\*                                 calculator, which have not been assigned
\*                                 since
\*                      "dirty"    the compartments it read have been
\*                                 assigned since: the next read runs the
\*                                 getter again
\*                      "detached" it read the compartments of a calculator
\*                                 that loadProfile has replaced since, and
\*                                 which nothing assigns any more
\*                      "unbound"  it ran while decoCalculator was null and
\*                                 read no reactive state at all
UseDiveEngine ==
  [ currentProfile |-> 0,
    playback |-> [state |-> "stopped", speed |-> DefaultSpeed, currentTime |-> Zero,
                  totalTime |-> Zero, stepSize |-> DefaultStepSize],
    diveState |-> Null,
    air |-> Null,
    deco |-> Null,
    animationFrameId |-> 0,
    sinceLastUpdate |-> -1,
    processedEvents |-> {},
    maxDepth |-> Zero,
    pending |-> << >>,
    fired |-> << >>,
    applied |-> Zero,
    saturations |-> Null ]

\* tissues.value = ... in updateTissues: the computed values that read the
\* compartments of this calculator are to be computed again
Trigger(saturations) ==
  IF ~IsNull(saturations) /\ saturations[1].standing = "fresh"
  THEN Some([saturations[1] EXCEPT !.standing = "dirty"])
  ELSE saturations

\* decoCalculator = useDecompression(): the variable is not reactive, so a
\* computed value that read the former calculator keeps reading it
Replace(saturations) ==
  IF ~IsNull(saturations) /\ saturations[1].standing = "fresh"
  THEN Some([saturations[1] EXCEPT !.standing = "detached"])
  ELSE saturations

\* the DecoState of a snapshot, ndl, decoStops and tts included
DecoState(snapshot) ==
  GetDecoState([tissues |-> snapshot.deco.tissues,
                gradientFactorLow |-> DefaultGFLow,
                gradientFactorHigh |-> DefaultGFHigh],
               snapshot.deco.depth)

Range(seq) == { seq[i] : i \in 1 .. Len(seq) }
Remove(seq, x) == SelectSeq(seq, LAMBDA y : y # x)

\* updateDiveState(timeDelta). Of the DecoState that getDecoState returns the
\* snapshot carries the compartments, the ceiling and the raw depth it was
\* asked for; ndl, decoStops and tts are functions of these and are worked out
\* by DecoState when they are read.
\* `read` is FALSE for the call in an iteration of a replay loop (seekTo,
\* stepBackward) that another iteration follows: that one's updateDiveState
\* reads currentDepth and safetyStop of the snapshot and replaces it, nothing
\* else can read it in between, and its other fields, which depend on nothing
\* but the calculators, are not worked out.
UpdateDiveStateIn(e, timeDelta, read) == Call(<< "UpdateDiveStateIn", e, timeDelta, read >>)
UpdateDiveStateInBody(e, timeDelta, read) ==
  IF e.currentProfile = 0 \/ IsNull(e.deco) \/ IsNull(e.air) THEN e
  ELSE
    LET profile == Profiles[e.currentProfile]
        previousDepth ==
          IF IsNull(e.diveState) THEN Zero ELSE e.diveState[1].currentDepth
        currentTime == e.playback.currentTime
        currentDepthRaw == InterpolateDepth(currentTime, profile.waypoints)
        currentDepth == RoundDepth(currentDepthRaw)
        pe == ProcessEvents(currentTime, profile.events, e.processedEvents,
                            e.air[1], e.fired)
        deco == UpdateTissues(e.deco[1], currentDepthRaw, timeDelta)
        air == ConsumeAir(pe.air, currentDepthRaw, timeDelta)
        deepest == IF Gt(currentDepth, e.maxDepth) THEN currentDepth ELSE e.maxDepth
        safetyStopState ==
          CalculateSafetyStopState(currentDepth, deepest,
            IF IsNull(e.diveState) THEN Null ELSE Some(e.diveState[1].safetyStop),
            timeDelta)
        updated == [e EXCEPT !.maxDepth = deepest,
                             !.processedEvents = pe.processed,
                             !.fired = pe.fired,
                             !.applied = Add(e.applied, timeDelta),
                             !.saturations = Trigger(e.saturations),
                             !.deco = Some(deco),
                             !.air = Some(air)]
        ceiling == CalculateCeiling(deco)
        airState == GetAirState(air, currentDepthRaw)
        airWarnings == CheckWarnings(air)
        ascentState == CalculateAscentRate(previousDepth, currentDepth, timeDelta)
        decoState == [tissues |-> deco.tissues, ceiling |-> ceiling,
                      depth |-> currentDepthRaw]
        warnings == GetActiveWarnings(airWarnings, ascentState, ceiling,
                                      pe.activeEvents)
    IN IF ~read /\ ~IsNull(e.diveState)
       THEN InOrder(<< currentDepthRaw, currentDepth, pe, deco, air, deepest,
                       safetyStopState, updated,
              [updated EXCEPT !.diveState =
                 Some([e.diveState[1] EXCEPT !.currentTime = currentTime,
                                             !.currentDepth = currentDepth,
                                             !.maxDepth = deepest,
                                             !.safetyStop = safetyStopState])] >>)
       ELSE InOrder(<< currentDepthRaw, currentDepth, pe, deco, air, deepest,
                       safetyStopState, updated, ceiling, airState, airWarnings,
                       ascentState, decoState, warnings,
              [updated EXCEPT !.diveState =
                 Some([currentTime |-> currentTime,
                       currentDepth |-> currentDepth,
                       maxDepth |-> deepest,
                       air |-> airState,
                       deco |-> decoState,
                       ascent |-> ascentState,
                       safetyStop |-> safetyStopState,
                       activeWarnings |-> warnings])] >>)

UpdateDiveState(e, timeDelta) == Call(<< "UpdateDiveState", e, timeDelta >>)
UpdateDiveStateBody(e, timeDelta) == UpdateDiveStateIn(e, timeDelta, TRUE)

\* requestAnimationFrame(animationLoop): a handle no pending callback holds
FreshHandle(e) ==
  CHOOSE id \in 1 .. (Len(e.pending) + 2) :
    /\ id \notin Range(e.pending)
    /\ id # e.animationFrameId
    /\ \A j \in 1 .. (id - 1) : j \in Range(e.pending) \/ j = e.animationFrameId

\* animationFrameId = requestAnimationFrame(animationLoop)
RequestAnimationFrame(e) == Call(<< "RequestAnimationFrame", e >>)
RequestAnimationFrameBody(e) ==
  LET id == FreshHandle(e)
  IN [e EXCEPT !.pending = Append(e.pending, id), !.animationFrameId = id]

Pause(e) == Call(<< "Pause", e >>)
PauseBody(e) ==
  LET paused == [e EXCEPT !.playback.state = "paused"]
  IN IF e.animationFrameId # 0
     THEN [paused EXCEPT !.pending = Remove(e.pending, e.animationFrameId),
                         !.animationFrameId = 0]
     ELSE paused

\* the playback record loadProfile writes
ResetPlayback(profile) == Call(<< "ResetPlayback", profile >>)
ResetPlaybackBody(profile) ==
  LET n == Len(profile.waypoints)
      totalTime == IF n > 0 THEN profile.waypoints[n].time ELSE Zero
  IN [state |-> "stopped", speed |-> DefaultSpeed, currentTime |-> Zero,
      totalTime |-> totalTime, stepSize |-> DefaultStepSize]

\* loadProfile without processedEvents.clear()
LoadProfileKeepsEvents(e, p) ==
  LET profile == Profiles[p]
  IN UpdateDiveState(
       [e EXCEPT !.currentProfile = p,
                 !.playback = ResetPlayback(profile),
                 !.maxDepth = Zero,
                 !.fired = << >>,
                 !.applied = Zero,
                 !.saturations = Replace(e.saturations),
                 !.deco = Some(UseDecompression(DefaultGFLow, DefaultGFHigh)),
                 !.air = Some(UseAirConsumption(profile.initialTankPressure,
                                                profile.tankVolume, profile.sacRate))],
       Zero)

LoadProfile(e, p) == Call(<< "LoadProfile", e, p >>)
LoadProfileBody(e, p) ==
  LET profile == Profiles[p]
  IN UpdateDiveState(
       [e EXCEPT !.currentProfile = p,
                 !.playback = ResetPlayback(profile),
                 !.maxDepth = Zero,
                 !.processedEvents = {},
                 !.fired = << >>,
                 !.applied = Zero,
                 !.saturations = Replace(e.saturations),
                 !.deco = Some(UseDecompression(DefaultGFLow, DefaultGFHigh)),
                 !.air = Some(UseAirConsumption(profile.initialTankPressure,
                                                profile.tankVolume, profile.sacRate))],
       Zero)

\* play without the reset of lastUpdateTime
PlayKeepsClock(e) ==
  IF e.currentProfile = 0 THEN e
  ELSE RequestAnimationFrame([e EXCEPT !.playback.state = "playing"])

Play(e) == Call(<< "Play", e >>)
PlayBody(e) ==
  IF e.currentProfile = 0 THEN e
  ELSE RequestAnimationFrame([e EXCEPT !.playback.state = "playing",
                                       !.sinceLastUpdate = -1])

Stop(e) == Call(<< "Stop", e >>)
StopBody(e) ==
  LET paused == Pause(e)
  IN IF paused.currentProfile # 0 THEN LoadProfile(paused, paused.currentProfile)
     ELSE paused

\* realTimeDelta and simTimeDelta of animationLoop
SimTimeDelta(e) == Call(<< "SimTimeDelta", e >>)
SimTimeDeltaBody(e) ==
  LET realTimeDelta == Div(Num(IF e.sinceLastUpdate = -1 THEN 0 ELSE e.sinceLastUpdate),
                           Num(1000))
  IN Div(Mul(realTimeDelta, e.playback.speed), Sixty)

\* animationLoop from the update of the simulation time on
Advance(e, simTimeDelta) == Call(<< "Advance", e, simTimeDelta >>)
AdvanceBody(e, simTimeDelta) ==
  UpdateDiveState(
    [e EXCEPT !.playback.currentTime =
       MathMin(Add(e.playback.currentTime, simTimeDelta), e.playback.totalTime)],
    simTimeDelta)

\* animationLoop without the guard on the playback state
AnimationLoopUnguarded(e) ==
  LET simTimeDelta == SimTimeDelta(e)
      updated == [Advance(e, simTimeDelta) EXCEPT !.sinceLastUpdate = 0]
  IN InOrder(<< simTimeDelta, updated,
       IF Ge(updated.playback.currentTime, updated.playback.totalTime)
       THEN Pause(updated)
       ELSE RequestAnimationFrame(updated) >>)

\* animationLoop with the completion test written > instead of >=
AnimationLoopStrictEnd(e) ==
  IF e.playback.state # "playing" THEN e
  ELSE
    LET simTimeDelta == SimTimeDelta(e)
        updated == [Advance(e, simTimeDelta) EXCEPT !.sinceLastUpdate = 0]
    IN InOrder(<< simTimeDelta, updated,
         IF Gt(updated.playback.currentTime, updated.playback.totalTime)
         THEN Pause(updated)
         ELSE RequestAnimationFrame(updated) >>)

\* animationLoop; the frame's timestamp is lastUpdateTime + sinceLastUpdate
AnimationLoop(e) == Call(<< "AnimationLoop", e >>)
AnimationLoopBody(e) ==
  IF e.playback.state # "playing" THEN e
  ELSE
    LET simTimeDelta == SimTimeDelta(e)
        updated == [Advance(e, simTimeDelta) EXCEPT !.sinceLastUpdate = 0]
    IN InOrder(<< simTimeDelta, updated,
         IF Ge(updated.playback.currentTime, updated.playback.totalTime)
         THEN Pause(updated)
         ELSE RequestAnimationFrame(updated) >>)

\* stepForward with pause() called before the test for a loaded profile
StepForwardPausesFirst(e) ==
  LET paused == Pause(e)
  IN IF e.currentProfile = 0 THEN paused
     ELSE Strict(Div(paused.playback.stepSize, Sixty), LAMBDA stepMinutes :
            Advance(paused, stepMinutes))

StepForward(e) == Call(<< "StepForward", e >>)
StepForwardBody(e) ==
  IF e.currentProfile = 0 THEN e
  ELSE LET paused == Pause(e)
       IN Strict(Div(paused.playback.stepSize, Sixty), LAMBDA stepMinutes :
            UpdateDiveState(
              [paused EXCEPT !.playback.currentTime =
                 MathMin(Add(paused.playback.currentTime, stepMinutes),
                         paused.playback.totalTime)],
              stepMinutes))

\* the fast-forward loop of stepBackward, iterations i = from .. to - 1 of
\* its `steps`:
\*   playback.currentTime = (i + 1) * (1 / 60); updateDiveState(1 / 60)
\* The iterations run in the loop's order; the range is halved, and the first
\* half computed before the second starts (see Strict), so that the evaluation
\* depth stays logarithmic in the number of iterations.
RECURSIVE FastForward(_, _, _, _)
FastForward(e, from, to, steps) ==
  IF from >= to THEN e
  ELSE IF to = from + 1
  THEN UpdateDiveStateIn([e EXCEPT !.playback.currentTime =
                            Mul(Num(from + 1), OneSecond)],
                         OneSecond, to = steps)
  ELSE LET mid == from + (to - from) \div 2
       IN Strict(FastForward(e, from, mid, steps),
                 LAMBDA firstHalf : FastForward(firstHalf, mid, to, steps))

\* the times the loop of stepBackward runs: Math.floor(newTime / (1 / 60)),
\* none when that is not above 0
Steps(newTime) == Call(<< "Steps", newTime >>)
StepsBody(newTime) ==
  Strict(MathFloor(Div(newTime, OneSecond)), LAMBDA steps :
    IF Gt(steps, Zero) THEN ToInt(steps) ELSE 0)

\* stepBackward that reads stepSize after the reload
StepBackwardReadsLate(e) ==
  IF e.currentProfile = 0 THEN e
  ELSE
    LET paused == Pause(e)
        loaded == LoadProfile(paused, paused.currentProfile)
        stepMinutes == Div(loaded.playback.stepSize, Sixty)
        newTime == MathMax(Zero, Sub(paused.playback.currentTime, stepMinutes))
        steps == Steps(newTime)
    IN InOrder(<< paused, loaded, stepMinutes, newTime, steps,
         [FastForward(loaded, 0, steps, steps)
            EXCEPT !.playback.currentTime = newTime, !.playback.state = "paused"] >>)

StepBackward(e) == Call(<< "StepBackward", e >>)
StepBackwardBody(e) ==
  IF e.currentProfile = 0 THEN e
  ELSE
    LET paused == Pause(e)
        stepMinutes == Div(paused.playback.stepSize, Sixty)
        newTime == MathMax(Zero, Sub(paused.playback.currentTime, stepMinutes))
        loaded == LoadProfile(paused, paused.currentProfile)
        steps == Steps(newTime)
    IN InOrder(<< paused, stepMinutes, newTime, loaded, steps,
         [FastForward(loaded, 0, steps, steps)
            EXCEPT !.playback.currentTime = newTime, !.playback.state = "paused"] >>)

\* the while loop of seekTo, at most `turns` iterations of it from currentTime
\* on:
\*   delta = min(stepSize, targetTime - currentTime); currentTime += delta;
\*   playback.currentTime = currentTime; updateDiveState(delta)
\* The iterations run in the loop's order; the turns are halved so that the
\* evaluation depth stays logarithmic. After an iteration the loop's
\* currentTime is playback.currentTime.
RECURSIVE SeekLoop(_, _, _, _)
SeekLoop(e, currentTime, targetTime, turns) ==
  IF turns = 0 \/ ~Lt(currentTime, targetTime) THEN e
  ELSE IF turns = 1
  THEN LET delta == MathMin(OneSecond, Sub(targetTime, currentTime))
           reached == Add(currentTime, delta)
       IN InOrder(<< delta, reached,
            UpdateDiveStateIn([e EXCEPT !.playback.currentTime = reached], delta,
                              ~Lt(reached, targetTime)) >>)
  ELSE Strict(SeekLoop(e, currentTime, targetTime, turns \div 2), LAMBDA firstHalf :
         SeekLoop(firstHalf, firstHalf.playback.currentTime, targetTime,
                  turns - turns \div 2))

\* iterations the loop of seekTo cannot exceed: every one but the last adds a
\* second; none when `0 < targetTime` is false at the start, as it is for a
\* target that is not a number (Math.max(0, NaN) is NaN)
SeekTurns(targetTime) == Call(<< "SeekTurns", targetTime >>)
SeekTurnsBody(targetTime) ==
  IF ~Lt(Zero, targetTime) THEN 0
  ELSE ToInt(MathCeil(Mul(targetTime, Sixty))) + 2

SeekTo(e, time) == Call(<< "SeekTo", e, time >>)
SeekToBody(e, time) ==
  IF e.currentProfile = 0 THEN e
  ELSE
    LET wasPlaying == e.playback.state = "playing"
        paused == Pause(e)
        targetTime == MathMax(Zero, MathMin(time, paused.playback.totalTime))
        loaded == LoadProfile(paused, paused.currentProfile)
        settled == [SeekLoop(loaded, Zero, targetTime, SeekTurns(targetTime))
                      EXCEPT !.playback.state = "paused"]
    IN InOrder(<< paused, targetTime, loaded, settled,
                  IF wasPlaying THEN Play(settled) ELSE settled >>)

SetSpeed(e, speed) == Call(<< "SetSpeed", e, speed >>)
SetSpeedBody(e, speed) == [e EXCEPT !.playback.speed = speed]

SetStepSize(e, seconds) == Call(<< "SetStepSize", e, seconds >>)
SetStepSizeBody(e, seconds) == [e EXCEPT !.playback.stepSize = seconds]

\* One animation frame of the browser: every callback requested before the
\* frame runs, in request order, unless it was cancelled meanwhile; callbacks
\* requested during the frame wait for the next one.
RECURSIVE RunCallbacks(_, _)
RunCallbacks(e, batch) ==
  IF batch = << >> THEN e
  ELSE LET id == Head(batch)
       IN IF id \notin Range(e.pending) THEN RunCallbacks(e, Tail(batch))
          ELSE Strict(AnimationLoop([e EXCEPT !.pending = Remove(e.pending, id)]),
                      LAMBDA called : RunCallbacks(called, Tail(batch)))

AnimationFrame(e, dt) == Call(<< "AnimationFrame", e, dt >>)
AnimationFrameBody(e, dt) ==
  RunCallbacks([e EXCEPT !.sinceLastUpdate = IF @ = -1 THEN -1 ELSE @ + dt], e.pending)


\* Every function above is applied through this one operator: a[1] names the
\* function and the rest of a is the list of its arguments.
Call(a) ==
  CASE a[1] = "Add" -> AddBody(a[2], a[3])
    [] a[1] = "Mul" -> MulBody(a[2], a[3])
    [] a[1] = "Sub" -> SubBody(a[2], a[3])
    [] a[1] = "Div" -> DivBody(a[2], a[3])
    [] a[1] = "MathExp" -> MathExpBody(a[2])
    [] a[1] = "MathLog" -> MathLogBody(a[2])
    [] a[1] = "MathFloor" -> MathFloorBody(a[2])
    [] a[1] = "MathRound" -> MathRoundBody(a[2])
    [] a[1] = "MathCeil" -> MathCeilBody(a[2])
    [] a[1] = "Num" -> NumBody(a[2])
    [] a[1] = "Dec" -> DecBody(a[2], a[3])
    [] a[1] = "Seconds" -> SecondsBody(a[2])
    [] a[1] = "TenthsOfSecond" -> TenthsOfSecondBody(a[2])
    [] a[1] = "ProfileStop" -> ProfileStopBody
    [] a[1] = "ProfileEvents" -> ProfileEventsBody
    [] a[1] = "ProfileDeep" -> ProfileDeepBody
    [] a[1] = "ProfileEmpty" -> ProfileEmptyBody
    [] a[1] = "ProfileGentle" -> ProfileGentleBody
    [] a[1] = "ProfileReturn" -> ProfileReturnBody
    [] a[1] = "ProfileReserve" -> ProfileReserveBody
    [] a[1] = "ProfileDrop" -> ProfileDropBody
    [] a[1] = "ProfileTwins" -> ProfileTwinsBody
    [] a[1] = "Profiles" -> ProfilesBody
    [] a[1] = "UseAirConsumption" -> UseAirConsumptionBody(a[2], a[3], a[4])
    [] a[1] = "Reset" -> ResetBody(a[2])
    [] a[1] = "GetDepthFactor" -> GetDepthFactorBody(a[2])
    [] a[1] = "CalculateConsumption" -> CalculateConsumptionBody(a[2], a[3], a[4])
    [] a[1] = "ConsumeAir" -> ConsumeAirBody(a[2], a[3], a[4])
    [] a[1] = "CalculateRemainingAirTime" -> CalculateRemainingAirTimeBody(a[2], a[3])
    [] a[1] = "AverageSacRate" -> AverageSacRateBody(a[2])
    [] a[1] = "ApplyEvent" -> ApplyEventBody(a[2], a[3])
    [] a[1] = "GetAirState" -> GetAirStateBody(a[2], a[3])
    [] a[1] = "CheckWarnings" -> CheckWarningsBody(a[2])
    [] a[1] = "BUHLMANN_ZHL16C" -> BUHLMANN_ZHL16CBody
    [] a[1] = "DecayConstants" -> DecayConstantsBody
    [] a[1] = "Saturation" -> SaturationBody(a[2], a[3])
    [] a[1] = "UsualTimes" -> UsualTimesBody
    [] a[1] = "SaturationTable" -> SaturationTableBody
    [] a[1] = "Saturations" -> SaturationsBody(a[2])
    [] a[1] = "UseDecompression" -> UseDecompressionBody(a[2], a[3])
    [] a[1] = "GetAmbientPressure" -> GetAmbientPressureBody(a[2])
    [] a[1] = "GetInspiredN2Pressure" -> GetInspiredN2PressureBody(a[2])
    [] a[1] = "TissueLoading" -> TissueLoadingBody(a[2], a[3], a[4])
    [] a[1] = "CalculateTissueLoading" -> CalculateTissueLoadingBody(a[2], a[3], a[4], a[5])
    [] a[1] = "GetMValue" -> GetMValueBody(a[2], a[3])
    [] a[1] = "GetGFMValue" -> GetGFMValueBody(a[2], a[3], a[4], a[5])
    [] a[1] = "CalculateCeiling" -> CalculateCeilingBody(a[2])
    [] a[1] = "SurfaceGFMValue" -> SurfaceGFMValueBody(a[2], a[3])
    [] a[1] = "TimeToLimit" -> TimeToLimitBody(a[2], a[3], a[4])
    [] a[1] = "CalculateNDL" -> CalculateNDLBody(a[2], a[3])
    [] a[1] = "Live" -> LiveBody(a[2])
    [] a[1] = "After" -> AfterBody(a[2], a[3])
    [] a[1] = "CloneTissues" -> CloneTissuesBody(a[2], a[3])
    [] a[1] = "StopMinute" -> StopMinuteBody(a[2], a[3], a[4], a[5])
    [] a[1] = "StopTime" -> StopTimeBody(a[2], a[3], a[4], a[5])
    [] a[1] = "DecoStopsRun" -> DecoStopsRunBody(a[2], a[3])
    [] a[1] = "CalculateDecoStops" -> CalculateDecoStopsBody(a[2], a[3])
    [] a[1] = "TTSRun" -> TTSRunBody(a[2], a[3])
    [] a[1] = "CalculateTTS" -> CalculateTTSBody(a[2], a[3])
    [] a[1] = "UpdateTissues" -> UpdateTissuesBody(a[2], a[3], a[4])
    [] a[1] = "ResetTissues" -> ResetTissuesBody(a[2])
    [] a[1] = "GetDecoStateRun" -> GetDecoStateRunBody(a[2], a[3])
    [] a[1] = "GetDecoState" -> GetDecoStateBody(a[2], a[3])
    [] a[1] = "TissueSaturationPercentages" -> TissueSaturationPercentagesBody(a[2])
    [] a[1] = "InterpolateDepth" -> InterpolateDepthBody(a[2], a[3])
    [] a[1] = "RoundDepth" -> RoundDepthBody(a[2])
    [] a[1] = "CalculateAscentRate" -> CalculateAscentRateBody(a[2], a[3], a[4])
    [] a[1] = "CalculateSafetyStopState" -> CalculateSafetyStopStateBody(a[2], a[3], a[4], a[5])
    [] a[1] = "GetActiveWarnings" -> GetActiveWarningsBody(a[2], a[3], a[4], a[5])
    [] a[1] = "ShouldTrigger" -> ShouldTriggerBody(a[2], a[3], a[4])
    [] a[1] = "ProcessEvents" -> ProcessEventsBody(a[2], a[3], a[4], a[5], a[6])
    [] a[1] = "UpdateDiveStateIn" -> UpdateDiveStateInBody(a[2], a[3], a[4])
    [] a[1] = "UpdateDiveState" -> UpdateDiveStateBody(a[2], a[3])
    [] a[1] = "RequestAnimationFrame" -> RequestAnimationFrameBody(a[2])
    [] a[1] = "Pause" -> PauseBody(a[2])
    [] a[1] = "ResetPlayback" -> ResetPlaybackBody(a[2])
    [] a[1] = "LoadProfile" -> LoadProfileBody(a[2], a[3])
    [] a[1] = "Play" -> PlayBody(a[2])
    [] a[1] = "Stop" -> StopBody(a[2])
    [] a[1] = "SimTimeDelta" -> SimTimeDeltaBody(a[2])
    [] a[1] = "Advance" -> AdvanceBody(a[2], a[3])
    [] a[1] = "AnimationLoop" -> AnimationLoopBody(a[2])
    [] a[1] = "StepForward" -> StepForwardBody(a[2])
    [] a[1] = "Steps" -> StepsBody(a[2])
    [] a[1] = "StepBackward" -> StepBackwardBody(a[2])
    [] a[1] = "SeekTurns" -> SeekTurnsBody(a[2])
    [] a[1] = "SeekTo" -> SeekToBody(a[2], a[3])
    [] a[1] = "SetSpeed" -> SetSpeedBody(a[2], a[3])
    [] a[1] = "SetStepSize" -> SetStepSizeBody(a[2], a[3])
    [] a[1] = "AnimationFrame" -> AnimationFrameBody(a[2], a[3])

\* ------------------------------------------------------------ the bounds
\* operations (calls of the engine and animation frames) in one behaviour
MaxOps == 4

\* the profiles every operation of the engine is tried on; the other ones are
\* loaded where what they are made for is followed: ProfileStop and
\* ProfileReturn for the safety stop (StopIds, ReturnIds), ProfileDeep for
\* the warnings (DeepIds), ProfileGentle for the ascent rate of a whole
\* profile (GentleIds), ProfileReserve for the air warnings (ReserveIds)
ProfileIds == { p \in 1 .. Len(Profiles) : Profiles[p] \in { ProfileEvents, ProfileEmpty } }
\* arguments of seekTo (minutes): below 0, between two seconds, on a second
SeekTargets == { Neg(Seconds(1)), TenthsOfSecond(125), Seconds(24) }
\* the one of them between two seconds, for the dives followed for one thing
ShortSeekTargets == { TenthsOfSecond(125) }
\* arguments of setSpeed (PlaybackSpeed)
Speeds == { Half }
\* arguments of setStepSize (seconds)
StepSizes == { Num(-10), Num(180) }
\* wall time between two animation frames (milliseconds)
FrameIntervals == { 1000 }

\* ------------------------------------------------------- the state machine
\* The engine's state, the browser's pending frame callbacks, and history:
\*   fired    see UseDiveEngine
\*   applied  see UseDiveEngine
\*   tissueSaturationPercentages  the field saturations of UseDiveEngine
\*   lastOp   the operation that led to this state
\*   opCount  the operations so far
\*   stepRun  k >= 0 when the engine was loaded and then only stepped
\*            forward k times (setStepSize allowed before the first step),
\*            -1 otherwise
\*   call     the last direct call of a function of the calculators or of
\*            calculateAscentRate, with its arguments and result (Null when
\*            the engine is driven through its operations; under continuous
\*            playback, the count of the frames run, see FrameCounted)
VARIABLES currentProfile, playback, diveState, airCalculator, decoCalculator,
          animationFrameId,
          sinceLastUpdate, processedEvents, maxDepth, pending, fired, applied,
          tissueSaturationPercentages,
          layouts, selectedLayoutId, layoutConfig, loading, error, loads,
          lastOp, opCount, stepRun, call

vars == << currentProfile, playback, diveState, airCalculator, decoCalculator,
           animationFrameId,
           sinceLastUpdate, processedEvents, maxDepth, pending, fired, applied,
           tissueSaturationPercentages,
           layouts, selectedLayoutId, layoutConfig, loading, error, loads,
           lastOp, opCount, stepRun, call >>

\* the state after useLayout(): the refs of the composable and (loads) the
\* calls of loadLayoutsIndex and loadLayout that have not settled yet
UseLayout ==
  /\ layouts = << >>
  /\ selectedLayoutId = "default"
  /\ layoutConfig = Null
  /\ loading = FALSE
  /\ error = Null
  /\ loads = << >>

IdleLayout == UNCHANGED << layouts, selectedLayoutId, layoutConfig, loading, error, loads >>

Engine ==
  [ currentProfile |-> currentProfile, playback |-> playback, diveState |-> diveState,
    air |-> airCalculator, deco |-> decoCalculator,
    animationFrameId |-> animationFrameId,
    sinceLastUpdate |-> sinceLastUpdate, processedEvents |-> processedEvents,
    maxDepth |-> maxDepth, pending |-> pending, fired |-> fired, applied |-> applied,
    saturations |-> tissueSaturationPercentages ]

Becomes(e) ==
  \E next \in {e} :
    /\ currentProfile' = next.currentProfile
    /\ playback' = next.playback
    /\ diveState' = next.diveState
    /\ airCalculator' = next.air
    /\ decoCalculator' = next.deco
    /\ animationFrameId' = next.animationFrameId
    /\ sinceLastUpdate' = next.sinceLastUpdate
    /\ processedEvents' = next.processedEvents
    /\ maxDepth' = next.maxDepth
    /\ pending' = next.pending
    /\ fired' = next.fired
    /\ applied' = next.applied
    /\ tissueSaturationPercentages' = next.saturations
    /\ IdleLayout

Op(name, arg) == [op |-> name, arg |-> arg]

\* the state after useDiveEngine()
Init ==
  /\ currentProfile = UseDiveEngine.currentProfile
  /\ playback = UseDiveEngine.playback
  /\ diveState = UseDiveEngine.diveState
  /\ airCalculator = UseDiveEngine.air
  /\ decoCalculator = UseDiveEngine.deco
  /\ animationFrameId = UseDiveEngine.animationFrameId
  /\ sinceLastUpdate = UseDiveEngine.sinceLastUpdate
  /\ processedEvents = UseDiveEngine.processedEvents
  /\ maxDepth = UseDiveEngine.maxDepth
  /\ pending = UseDiveEngine.pending
  /\ fired = UseDiveEngine.fired
  /\ applied = UseDiveEngine.applied
  /\ tissueSaturationPercentages = UseDiveEngine.saturations
  /\ lastOp = Op("new", Zero)
  /\ opCount = 0
  /\ stepRun = -1
  /\ call = Null
  /\ UseLayout

\* fewer than `limit` operations so far
Within(limit) == opCount < limit

Called(name, arg) ==
  /\ opCount' = opCount + 1
  /\ call' = call
  /\ lastOp' = Op(name, arg)

loadProfile(p) ==
  /\ Called("loadProfile", Num(p))
  /\ Becomes(LoadProfile(Engine, p))
  /\ stepRun' = 0

play ==
  /\ Called("play", Zero)
  /\ Becomes(Play(Engine))
  /\ stepRun' = -1

pause ==
  /\ Called("pause", Zero)
  /\ Becomes(Pause(Engine))
  /\ stepRun' = -1

stop ==
  /\ Called("stop", Zero)
  /\ Becomes(Stop(Engine))
  /\ stepRun' = -1

stepForward ==
  /\ Called("stepForward", Zero)
  /\ Becomes(StepForward(Engine))
  /\ stepRun' = IF stepRun >= 0 THEN stepRun + 1 ELSE -1

stepBackward ==
  /\ Called("stepBackward", Zero)
  /\ Becomes(StepBackward(Engine))
  /\ stepRun' = -1

seekTo(time) ==
  /\ Called("seekTo", time)
  /\ Becomes(SeekTo(Engine, time))
  /\ stepRun' = -1

setSpeed(speed) ==
  /\ Called("setSpeed", speed)
  /\ Becomes(SetSpeed(Engine, speed))
  /\ stepRun' = -1

setStepSize(seconds) ==
  /\ Called("setStepSize", seconds)
  /\ Becomes(SetStepSize(Engine, seconds))
  /\ stepRun' = IF stepRun = 0 THEN 0 ELSE -1

\* the browser runs one animation frame with callbacks to run, dt after the
\* previous one
animationFrame(dt) ==
  /\ pending # << >>
  /\ Called("animationFrame", Num(dt))
  /\ Becomes(AnimationFrame(Engine, dt))
  /\ stepRun' = -1

Next ==
  \/ \E p \in ProfileIds : Within(MaxOps) /\ loadProfile(p)
  \/ Within(MaxOps) /\ play
  \/ Within(MaxOps) /\ pause
  \/ Within(MaxOps) /\ stop
  \/ Within(MaxOps) /\ stepForward
  \/ Within(MaxOps) /\ stepBackward
  \/ \E time \in SeekTargets : Within(MaxOps) /\ seekTo(time)
  \/ \E speed \in Speeds : Within(MaxOps) /\ setSpeed(speed)
  \/ \E seconds \in StepSizes : Within(MaxOps) /\ setStepSize(seconds)
  \/ \E dt \in FrameIntervals : Within(MaxOps) /\ animationFrame(dt)

Spec == Init /\ [][Next]_vars

\* ------------------------------------------------------------ properties
Loaded == currentProfile # 0
Snapshot == diveState[1]
LoadedProfile == Profiles[currentProfile]
\* a finite whole number
Whole(x) == IsFinite(x) /\ MathFloor(x) = x

\* the engine driven with the dive that has a long safety stop only: loads,
\* stops, seeks to the start of the dive and into the stop, and steps of three
\* minutes, MaxStopOps operations in one behaviour
MaxStopOps == 5
StopIds == { p \in 1 .. Len(Profiles) : Profiles[p] = ProfileStop }
StopSeekTargets == { Zero, Seconds(60) }
StopStepSizes == { Num(180) }
NextStop ==
  \/ \E p \in StopIds : Within(MaxStopOps) /\ loadProfile(p)
  \/ Within(MaxStopOps) /\ stop
  \/ Within(MaxStopOps) /\ stepForward
  \/ \E time \in StopSeekTargets : Within(MaxStopOps) /\ seekTo(time)
  \/ \E seconds \in StopStepSizes : Within(MaxStopOps) /\ setStepSize(seconds)

SpecStop == Init /\ [][NextStop]_vars

\* C1 - replay determinism: in every reachable state with a loaded profile
\* that a seekTo(T) has led to, whatever the state it was called in, calling
\* seekTo(T) again publishes a snapshot equal to the one the first call
\* published (every field).
C1_SeekTwiceSameSnapshot ==
  (Loaded /\ lastOp.op = "seekTo") =>
    SeekTo(Engine, lastOp.arg).diveState = diveState

\* The engine was loaded and then stepped forward stepRun >= 1 times, each
\* step a whole stepSize (none clamped at the end of the dive).
SteppedOnly ==
  /\ stepRun >= 1
  /\ Gt(playback.stepSize, Zero)
  /\ Le(Mul(Num(stepRun), Div(playback.stepSize, Sixty)), playback.totalTime)
\* a fresh load followed by one seekTo of the time the steps have reached
SoughtFromLoad == SeekTo(LoadProfile(UseDiveEngine, currentProfile), playback.currentTime)

\* C2 - from a fresh load, reaching time T (a multiple of stepSize) by
\* repeated stepForward calls and reaching it by one seekTo(T) give snapshots
\* with the same currentDepth, maxDepth, current SAC rate and tank pressure.
C2_StepsAgreeWithSeek ==
  SteppedOnly =>
    LET sought == SoughtFromLoad.diveState[1]
    IN /\ Snapshot.currentDepth = sought.currentDepth
       /\ Snapshot.maxDepth = sought.maxDepth
       /\ Snapshot.air.currentSacRate = sought.air.currentSacRate
       /\ Snapshot.air.tankPressure = sought.air.tankPressure

\* C3 - within one pass (between two loads or reloads) each profile event is
\* fired at most once: no event index occurs twice in the firing history.
C3_EventsFireOnce ==
  \A i, j \in 1 .. Len(fired) : fired[i] = fired[j] => i = j

\* A frame tick or a stepForward updated the state at a time within the
\* window of an event that had fired earlier in the pass, and did not fire it
\* again.
C3_Witness ==
  /\ Loaded
  /\ lastOp.op \in {"animationFrame", "stepForward"}
  /\ \E k \in Range(fired) :
       LET event == LoadedProfile.events[k]
       IN /\ event.message
          /\ Lt(MathAbs(Sub(Snapshot.currentTime, event.time)), EventWindow)
          /\ \A w \in Range(Snapshot.activeWarnings) : w.code # event.type

RateEventTypes ==
  { "airSharing", "airSharingEnd", "breathingRateIncrease", "breathingRateDecrease" }
FiredType(i) == LoadedProfile.events[fired[i]].type
\* the positions in the firing history of the events that set the SAC rate
RateFirings == { i \in 1 .. Len(fired) : FiredType(i) \in RateEventTypes }
LastRateFiring == CHOOSE i \in RateFirings : \A j \in RateFirings : j <= i
AirSharingInForce ==
  Loaded /\ RateFirings # {} /\ FiredType(LastRateFiring) = "airSharing"

\* C4 - while airSharing is the last rate-changing event fired in the pass,
\* the snapshot's currentSacRate is exactly twice the profile's sacRate.
C4_AirSharingDoublesBaseRate ==
  AirSharingInForce =>
    Snapshot.air.currentSacRate = Mul(Two, LoadedProfile.sacRate)

\* airSharing fired after a breathingRateIncrease, whose rate it replaced,
\* and a later update fell within the airSharing event's window again
C4_Witness ==
  /\ AirSharingInForce
  /\ \E i \in RateFirings : i < LastRateFiring /\ FiredType(i) = "breathingRateIncrease"
  /\ Lt(MathAbs(Sub(Snapshot.currentTime,
                    LoadedProfile.events[fired[LastRateFiring]].time)), EventWindow)
  /\ \A w \in Range(Snapshot.activeWarnings) : w.code # "airSharing"
  /\ Snapshot.air.currentSacRate = Mul(Two, LoadedProfile.sacRate)

\* C5 - stop() leaves the playback state 'stopped' with currentTime 0, from
\* every state, with or without a loaded profile.
C5_StopStops ==
  lastOp.op = "stop" => playback.state = "stopped" /\ playback.currentTime = Zero

\* C6 - seekTo(T) on a loaded profile ends with currentTime clamped into
\* [0, totalTime]; the state is 'playing' afterwards iff it was 'playing'
\* before, otherwise 'paused'; and when playing resumes exactly one frame
\* callback is scheduled.
C6_SeekKeepsIntent ==
  [][ (Loaded /\ lastOp'.op = "seekTo") =>
        /\ playback'.currentTime =
             MathMin(MathMax(lastOp'.arg, Zero), playback.totalTime)
        /\ playback'.state =
             (IF playback.state = "playing" THEN "playing" ELSE "paused")
        /\ playback'.state = "playing" => Len(pending') = 1 ]_vars

\* C7 - in every reachable state 0 <= playback.currentTime <= totalTime.
C7_TimeWithinDive ==
  Le(Zero, playback.currentTime) /\ Le(playback.currentTime, playback.totalTime)

\* C9 - at most one frame callback scheduled by the engine is pending.
C9_OnePendingFrame == Len(pending) <= 1

\* ------------------------------------------------- frames and the clock
\* The engine under a user who loads ProfileEvents, seeks into its descent,
\* plays, pauses, steps and changes the speed while the browser runs animation
\* frames, MaxFrameOps operations in one behaviour.
MaxFrameOps == 5
FrameIds == { p \in 1 .. Len(Profiles) : Profiles[p] = ProfileEvents }
FrameSeekTargets == { Seconds(4) }
NextFrames ==
  \/ \E p \in FrameIds : Within(MaxFrameOps) /\ loadProfile(p)
  \/ Within(MaxFrameOps) /\ play
  \/ Within(MaxFrameOps) /\ pause
  \/ Within(MaxFrameOps) /\ stepForward
  \/ \E time \in FrameSeekTargets : Within(MaxFrameOps) /\ seekTo(time)
  \/ \E speed \in Speeds : Within(MaxFrameOps) /\ setSpeed(speed)
  \/ \E dt \in FrameIntervals : Within(MaxFrameOps) /\ animationFrame(dt)

SpecFrames == Init /\ [][NextFrames]_vars

\* C10 - while the playback state is not 'playing' (after pause, stop, a
\* step or a seek that was not playing, until play is called), an animation
\* frame, whatever callbacks it runs, changes neither the playback record
\* nor the published snapshot.
C10_NoAdvanceUnlessPlaying ==
  [][ (lastOp'.op = "animationFrame" /\ playback.state # "playing")
        => (playback' = playback /\ diveState' = diveState) ]_vars

\* A frame ran a callback that was still scheduled although the engine was
\* paused: the frame found the clock reset (so play had been called and no
\* callback had run since) and left it so, which a running loop never does.
C10_Witness ==
  /\ lastOp.op = "animationFrame"
  /\ playback.state = "paused"
  /\ sinceLastUpdate = -1

\* ------------------------------------------------- continuous playback
\* The engine under a user who loads a profile (at any time, during playback
\* too), presses play and changes the speed, MaxCalls times in all, while the
\* browser keeps running animation frames: a frame is due whenever a callback
\* is pending.
MaxCalls == 3
\* arguments of setSpeed during playback
PlaybackSpeeds == { Half, Ten }
\* wall time between two animation frames of a throttled page (milliseconds)
SlowFrameIntervals == { 10000 }

loadAtAnyTime(p) ==
  /\ opCount < MaxCalls
  /\ loadProfile(p)

pressPlay ==
  /\ opCount < MaxCalls
  /\ play

changeSpeed(speed) ==
  /\ opCount < MaxCalls
  /\ setSpeed(speed)

\* the frames the browser has run, counted modulo 2: the record of its last
\* call of the callbacks, which tells every frame from the one before it
FrameCounted ==
  Some([ op |-> "animationFrame", args |-> << >>,
         result |-> IF IsNull(call) THEN 1 ELSE 1 - call[1].result ])

frameTick(dt) ==
  /\ pending # << >>
  /\ Becomes(AnimationFrame(Engine, dt))
  /\ lastOp' = Op("animationFrame", Num(dt))
  /\ opCount' = opCount
  /\ stepRun' = -1
  /\ call' = FrameCounted

NextPlayback ==
  \/ \E p \in ProfileIds : loadAtAnyTime(p)
  \/ pressPlay
  \/ \E speed \in PlaybackSpeeds : changeSpeed(speed)
  \/ \E dt \in SlowFrameIntervals : frameTick(dt)

\* a frame runs, as far as the count of the frames tells: the steps that
\* change `call` are the steps of frameTick, and one is possible exactly when
\* a callback is pending
aFrameRuns ==
  /\ pending # << >>
  /\ call' = FrameCounted

\* requestAnimationFrame's contract, a requested callback is run: weak
\* fairness of the frame tick
FramesKeepComing == WF_call(aFrameRuns)

SpecPlayback == Init /\ [][NextPlayback]_vars /\ FramesKeepComing

PlaybackEnded ==
  /\ playback.state = "paused"
  /\ playback.currentTime = playback.totalTime
  /\ pending = << >>

C11_FirstTickAdvancesNothing ==
  [][ (lastOp'.op = "animationFrame" /\ (lastOp.op = "play" \/ sinceLastUpdate = -1))
        => /\ playback'.currentTime =
                MathMin(Add(playback.currentTime, Zero), playback.totalTime)
           /\ airCalculator'[1].totalAirConsumed = airCalculator[1].totalAirConsumed ]_vars

\* On the descent of ProfileEvents, where every tick of positive length
\* reports a non-zero rate, play() was called with the clock off the start
\* and the tick that followed left the clock where it was and reported a rate
\* of 0.
C11_Witness ==
  /\ Loaded /\ LoadedProfile = ProfileEvents
  /\ lastOp.op = "animationFrame"
  /\ playback.state = "playing"
  /\ sinceLastUpdate = 0
  /\ Gt(playback.currentTime, Zero)
  /\ Lt(playback.currentTime, Seconds(10))
  /\ Snapshot.currentTime = playback.currentTime
  /\ Snapshot.ascent.rate = Zero

\* C12 - before any profile is loaded play, stepForward, stepBackward and
\* seekTo are no-ops: they schedule no frame and leave the playback record
\* and the null dive state unchanged.
C12_NoOpsWithoutProfile ==
  [][ (currentProfile = 0
         /\ lastOp'.op \in {"play", "stepForward", "stepBackward", "seekTo"})
        => /\ playback' = playback
           /\ diveState' = diveState /\ IsNull(diveState')
           /\ pending' = pending
           /\ animationFrameId' = animationFrameId
           /\ currentProfile' = 0 ]_vars

\* each of the four was called on an engine without a profile whose playback
\* record was no longer the initial one
C12_Witness ==
  /\ currentProfile = 0
  /\ lastOp.op \in {"play", "stepForward", "stepBackward", "seekTo"}
  /\ playback.state = "paused"
  /\ playback.speed # DefaultSpeed

\* the state loadProfile leaves, but for the tank pressure of the snapshot
LastWaypointTime ==
  IF LoadedProfile.waypoints = << >> THEN Zero
  ELSE LoadedProfile.waypoints[Len(LoadedProfile.waypoints)].time

FreshlyLoaded ==
  /\ playback.state = "stopped"
  /\ playback.currentTime = Zero
  /\ playback.totalTime = LastWaypointTime
  /\ \A key \in processedEvents : Lt(MathAbs(Sub(key[2], Zero)), EventWindow)
  /\ Snapshot.currentTime = Zero
  /\ Snapshot.air.airConsumed = Zero
  /\ \A i \in Compartments : Snapshot.deco.tissues[i] = SurfaceN2Pressure

\* C13 as stated - the dive state is null until the first loadProfile and
\* never afterwards; right after loadProfile(P) the engine is stopped at time
\* 0 with totalTime the time of P's last waypoint (0 without waypoints), only
\* events within 0.1 min of time 0 are processed, and the snapshot has
\* currentTime 0, tank pressure equal to P.initialTankPressure, airConsumed 0
\* and every tissue at surface saturation.
C13_FreshAfterLoad ==
  /\ IsNull(diveState) <=> currentProfile = 0
  /\ lastOp.op = "loadProfile" =>
       /\ FreshlyLoaded
       /\ Snapshot.air.tankPressure = LoadedProfile.initialTankPressure

\* C13 amended - the same, with the tank pressure of the snapshot equal to
\* P.initialTankPressure rounded to the nearest whole bar.
C13_FreshAfterLoadRounded ==
  /\ IsNull(diveState) <=> currentProfile = 0
  /\ lastOp.op = "loadProfile" =>
       /\ FreshlyLoaded
       /\ Snapshot.air.tankPressure = MathRound(LoadedProfile.initialTankPressure)
       /\ Snapshot.air.initialTankPressure = LoadedProfile.initialTankPressure

\* a profile was loaded over an engine that had run another one, and an
\* event of the new profile lies within the window of time 0
C13_Witness ==
  /\ lastOp.op = "loadProfile"
  /\ opCount >= 3
  /\ processedEvents # {}
  /\ LoadedProfile.waypoints = << >>

\* C14 - with a profile loaded, stepForward sets currentTime to
\* min(currentTime + stepSize/60, totalTime) and stepBackward sets it to
\* max(0, currentTime - stepSize/60), stepSize being the value in force when
\* the call is made; both leave the state 'paused'.
C14_StepArithmetic ==
  [][ /\ (Loaded /\ lastOp'.op = "stepForward") =>
           /\ playback'.currentTime =
                MathMin(Add(playback.currentTime, Div(playback.stepSize, Sixty)),
                        playback.totalTime)
           /\ playback'.state = "paused"
      /\ (Loaded /\ lastOp'.op = "stepBackward") =>
           /\ playback'.currentTime =
                MathMax(Zero, Sub(playback.currentTime, Div(playback.stepSize, Sixty)))
           /\ playback'.state = "paused" ]_vars

\* a step back of 10 s from 12.5 s, which only a seek reaches
C14_Witness ==
  /\ lastOp.op = "stepBackward"
  /\ playback.currentTime = Sub(TenthsOfSecond(125), Seconds(10))
  /\ playback.state = "paused"

\* C15 - air conservation: in every snapshot, also after the tank has been
\* emptied, initial tank pressure minus current tank pressure equals the air
\* consumed, within the bar that rounding the two published values costs.
C15_AirConserved ==
  Loaded =>
    Le(MathAbs(Sub(Sub(Snapshot.air.initialTankPressure, Snapshot.air.tankPressure),
                   Snapshot.air.airConsumed)),
       Bar(1))

\* C16 - once the safety-stop countdown has reached 0 while the stop was
\* active the stop is completed: safetyStop.required is false in that
\* snapshot (and, the claim goes on, in every later one of the pass).
C16_CompletedStopNotRequired ==
  Loaded =>
    (Snapshot.safetyStop.active /\ Le(Snapshot.safetyStop.remaining, Zero)
       => ~Snapshot.safetyStop.required)

\* the engine driven with the dive that starts below 10 m only: loads, stops,
\* steps and step sizes of ten seconds and of three minutes, MaxDropOps
\* operations in one behaviour
MaxDropOps == 5
DropIds == { p \in 1 .. Len(Profiles) : Profiles[p] = ProfileDrop }
DropStepSizes == { Ten, Num(180) }
NextDrop ==
  \/ \E p \in DropIds : Within(MaxDropOps) /\ loadProfile(p)
  \/ Within(MaxDropOps) /\ stop
  \/ Within(MaxDropOps) /\ stepForward
  \/ \E seconds \in DropStepSizes : Within(MaxDropOps) /\ setStepSize(seconds)

SpecDrop == Init /\ [][NextDrop]_vars

\* the snapshot a step publishes is the first of its pass whose maxDepth is
\* 10 m or more: the first of the pass (a load or a stop published it), or
\* the one a step forward published after one whose maxDepth was below 10 m
FirstAtTenMetres ==
  /\ Ge(diveState'[1].maxDepth, SafetyStopMinMaxDepth)
  /\ \/ lastOp'.op \in { "loadProfile", "stop" }
     \/ /\ lastOp'.op = "stepForward"
        /\ Loaded
        /\ Lt(Snapshot.maxDepth, SafetyStopMinMaxDepth)

\* C17 - safetyStop.required is false in every snapshot whose maxDepth is
\* below 10 m, and true in the first snapshot of a pass whose maxDepth is
\* 10 m or more.
C17_RequiredFromTenMetres ==
  [][ /\ (Loaded' /\ Lt(diveState'[1].maxDepth, SafetyStopMinMaxDepth))
           => ~diveState'[1].safetyStop.required
      /\ (Loaded' /\ FirstAtTenMetres) => diveState'[1].safetyStop.required ]_vars

\* ------------------------------------------- calculateAscentRate, called
\* directly: depths in metres, time deltas in minutes
AscentDepths == { Zero, Dec(6, 10), Dec(11, 10), Metres(9), Metres(10), Metres(11),
                  Metres(20) }
AscentDeltas == { Neg(One), Zero, Dec(5, 100), OneSecond, Half, One }

Idle ==
  /\ UNCHANGED << currentProfile, playback, diveState, airCalculator, decoCalculator,
                  animationFrameId, sinceLastUpdate, processedEvents, maxDepth, pending,
                  fired, applied, tissueSaturationPercentages, lastOp, opCount, stepRun >>
  /\ IdleLayout

\* one call in a behaviour: the function keeps no state
calculateAscentRate(previousDepth, currentDepth, timeDelta) ==
  /\ IsNull(call)
  /\ call' = Some([ op |-> "calculateAscentRate",
                    args |-> << previousDepth, currentDepth, timeDelta >>,
                    result |-> CalculateAscentRate(previousDepth, currentDepth, timeDelta) ])
  /\ Idle

NextAscent ==
  \E previousDepth \in AscentDepths, currentDepth \in AscentDepths,
     timeDelta \in AscentDeltas :
       calculateAscentRate(previousDepth, currentDepth, timeDelta)

SpecAscent == Init /\ [][NextAscent]_vars

\* (previousDepth - currentDepth) / timeDelta, as the program's arithmetic
\* gives it, exceeds the limit
TooFast(previousDepth, currentDepth, timeDelta) ==
  Gt(timeDelta, Zero)
    /\ Gt(Div(Sub(previousDepth, currentDepth), timeDelta), MAX_ASCENT_RATE)

\* C18 - calculateAscentRate flags a violation exactly when the ascent
\* (previousDepth - currentDepth) / delta exceeds 10 m/min with delta > 0:
\* 20 m -> 9 m in a minute is one, 20 m -> 11 m and 20 m -> 10 m in a minute
\* are not, a descent never is, and delta <= 0 gives rate 0 and no violation.
C18_ViolationIffFasterThanTen ==
  /\ CalculateAscentRate(Metres(20), Metres(9), One).isViolation
  /\ ~CalculateAscentRate(Metres(20), Metres(11), One).isViolation
  /\ ~CalculateAscentRate(Metres(20), Metres(10), One).isViolation
  /\ ~IsNull(call) =>
       LET previousDepth == call[1].args[1]
           currentDepth == call[1].args[2]
           timeDelta == call[1].args[3]
           result == call[1].result
       IN /\ result.isViolation <=> TooFast(previousDepth, currentDepth, timeDelta)
          /\ Ge(currentDepth, previousDepth) => ~result.isViolation
          /\ Le(timeDelta, Zero) => (result.rate = Zero /\ ~result.isViolation)

\* an ascent at exactly 10 m/min was submitted
C18_Witness ==
  /\ ~IsNull(call)
  /\ call[1].args = << Metres(20), Metres(10), One >>
  /\ call[1].result.rate = Num(-10)
  /\ ~call[1].result.isViolation

\* the codes of the warnings of a snapshot, and their rank in the order
\* air, ascent, decompression, events
Codes(warnings) == [i \in 1 .. Len(warnings) |-> warnings[i].code]
AirCodes == { "CRITICAL_AIR", "LOW_AIR" }
Rank(code) ==
  IF code \in AirCodes THEN 1
  ELSE IF code = "FAST_ASCENT" THEN 2
  ELSE IF code = "DECO_REQUIRED" THEN 3
  ELSE 4
Count(codes, wanted) == Cardinality({ i \in 1 .. Len(codes) : codes[i] \in wanted })

\* the types of the events of `indices` that carry a message, in their order
RECURSIVE MessageTypes(_, _)
MessageTypes(events, indices) ==
  IF indices = << >> THEN << >>
  ELSE (IF events[Head(indices)].message THEN << events[Head(indices)].type >>
        ELSE << >>) \o MessageTypes(events, Tail(indices))

InPriorityOrder(snapshot) ==
  LET codes == Codes(snapshot.activeWarnings)
  IN /\ \A i, j \in 1 .. Len(codes) : i < j => Rank(codes[i]) <= Rank(codes[j])
     /\ Count(codes, AirCodes) <= 1
     /\ Count(codes, {"FAST_ASCENT"}) = (IF snapshot.ascent.isViolation THEN 1 ELSE 0)
     /\ Count(codes, {"DECO_REQUIRED"}) =
          (IF Gt(snapshot.deco.ceiling, Zero) THEN 1 ELSE 0)

\* the events fired by the one update of loadProfile or stepForward
FiredInAdvance ==
  IF lastOp'.op = "loadProfile" THEN fired'
  ELSE SubSeq(fired', Len(fired) + 1, Len(fired'))

\* the engine driven with the deep dive only, with steps of six minutes
DeepIds == { p \in 1 .. Len(Profiles) : Profiles[p] = ProfileDeep }
DeepStepSizes == { Num(360) }
NextDeep ==
  \/ \E p \in DeepIds : Within(MaxOps) /\ loadProfile(p)
  \/ Within(MaxOps) /\ play
  \/ Within(MaxOps) /\ pause
  \/ Within(MaxOps) /\ stop
  \/ Within(MaxOps) /\ stepForward
  \/ Within(MaxOps) /\ stepBackward
  \/ \E time \in ShortSeekTargets : Within(MaxOps) /\ seekTo(time)
  \/ \E speed \in Speeds : Within(MaxOps) /\ setSpeed(speed)
  \/ \E seconds \in DeepStepSizes : Within(MaxOps) /\ setStepSize(seconds)
  \/ \E dt \in FrameIntervals : Within(MaxOps) /\ animationFrame(dt)

SpecDeep == Init /\ [][NextDeep]_vars

\* C19 - in every snapshot activeWarnings is in priority order: at most one
\* air warning first (CRITICAL_AIR, or LOW_AIR only when the tank is not
\* critical), then FAST_ASCENT iff ascent.isViolation, then DECO_REQUIRED iff
\* deco.ceiling > 0, then one warning per event fired in this advance that
\* carries a message, in event-list order.
C19_WarningsInPriorityOrder ==
  [][ Loaded' =>
        LET snapshot == diveState'[1]
            codes == Codes(snapshot.activeWarnings)
            tank == airCalculator'[1].tankPressure
        IN /\ InPriorityOrder(snapshot)
           /\ "CRITICAL_AIR" \in Range(codes) <=> Le(tank, CriticalAirBar)
           /\ "LOW_AIR" \in Range(codes) <=>
                (Le(tank, LowAirBar) /\ ~Le(tank, CriticalAirBar))
           /\ lastOp'.op \in {"loadProfile", "stepForward"} =>
                SelectSeq(codes, LAMBDA code : Rank(code) = 4)
                  = MessageTypes(Profiles[currentProfile'].events, FiredInAdvance) ]_vars

\* a snapshot that carries an air, an ascent and a decompression warning and
\* the warnings of two events fired in the same advance, the later-scheduled
\* one listed first
C19_Witness ==
  /\ Loaded
  /\ Codes(Snapshot.activeWarnings) =
       << "CRITICAL_AIR", "FAST_ASCENT", "DECO_REQUIRED", "rapidAscent",
          "criticalAirWarning" >>
  /\ Snapshot.ascent.isViolation
  /\ Gt(Snapshot.deco.ceiling, Zero)


\* ------------------------------------------ the decompression calculator,
\* called directly: exposures of the tissues to a depth (metres) for a time
\* (minutes), and queries of the decompression state
MaxExposures == 2
ExposureDepths == { Zero, Metres(9), Metres(30), Metres(60) }
ExposureTimes == { One, Ten }
\* the depths the decompression state is asked for
QueryDepths == { Zero, Metres(30) }
\* the depth calculateDecoStops and calculateTTS are asked for
SimulationDepths == { Metres(30) }

InitDeco ==
  /\ currentProfile = UseDiveEngine.currentProfile
  /\ playback = UseDiveEngine.playback
  /\ diveState = UseDiveEngine.diveState
  /\ airCalculator = UseDiveEngine.air
  /\ decoCalculator = Some(UseDecompression(DefaultGFLow, DefaultGFHigh))
  /\ animationFrameId = UseDiveEngine.animationFrameId
  /\ sinceLastUpdate = UseDiveEngine.sinceLastUpdate
  /\ processedEvents = UseDiveEngine.processedEvents
  /\ maxDepth = UseDiveEngine.maxDepth
  /\ pending = UseDiveEngine.pending
  /\ fired = UseDiveEngine.fired
  /\ applied = UseDiveEngine.applied
  /\ tissueSaturationPercentages = UseDiveEngine.saturations
  /\ lastOp = Op("useDecompression", Zero)
  /\ opCount = 0
  /\ stepRun = -1
  /\ call = Null
  /\ UseLayout

IdleEngine ==
  /\ UNCHANGED << currentProfile, playback, diveState, airCalculator, animationFrameId,
                  sinceLastUpdate, processedEvents, maxDepth, pending, fired, applied,
                  tissueSaturationPercentages, lastOp, stepRun >>
  /\ IdleLayout

\* the queries of the decompression state and how many of them are made
\* between two updates of the compartments
QueryOps == { "getDecoState", "calculateDecoStops", "calculateTTS" }
MaxQueries == 2

\* the queries answered since the compartments were last assigned, the last
\* one included
Queries ==
  IF ~IsNull(call) /\ call[1].op \in QueryOps
  THEN Append(call[1].earlier,
              [op |-> call[1].op, args |-> call[1].args, result |-> call[1].result])
  ELSE << >>

updateTissues(depth, time) ==
  /\ opCount' = opCount + 1
  /\ decoCalculator' = Some(UpdateTissues(decoCalculator[1], depth, time))
  /\ call' = Some([ op |-> "updateTissues", args |-> << depth, time >>, result |-> Null,
                    earlier |-> << >> ])
  /\ IdleEngine

resetTissues ==
  /\ opCount' = opCount + 1
  /\ decoCalculator' = Some(ResetTissues(decoCalculator[1]))
  /\ call' = Some([ op |-> "resetTissues", args |-> << >>, result |-> Null,
                    earlier |-> << >> ])
  /\ IdleEngine

\* a query returns `result` and leaves the calculator `calculator`
Answers(op, currentDepth, result, calculator) ==
  /\ call' = Some([ op |-> op, args |-> << currentDepth >>, result |-> result,
                    earlier |-> Queries ])
  /\ decoCalculator' = Some(calculator)
  /\ UNCHANGED opCount
  /\ IdleEngine

getDecoState(currentDepth) ==
  /\ Len(Queries) < MaxQueries
  /\ \E run \in { GetDecoStateRun(decoCalculator[1], currentDepth) } :
       Answers("getDecoState", currentDepth, run.state, run.calculator)

calculateDecoStops(currentDepth) ==
  /\ Len(Queries) < MaxQueries
  /\ \E run \in { DecoStopsRun(decoCalculator[1], currentDepth) } :
       Answers("calculateDecoStops", currentDepth, run.stops,
               After(decoCalculator[1], run.heap))

calculateTTS(currentDepth) ==
  /\ Len(Queries) < MaxQueries
  /\ \E run \in { TTSRun(decoCalculator[1], currentDepth) } :
       Answers("calculateTTS", currentDepth, run.tts, After(decoCalculator[1], run.heap))

NextDeco ==
  \/ \E depth \in ExposureDepths, time \in ExposureTimes :
       Within(MaxExposures) /\ updateTissues(depth, time)
  \/ Within(MaxExposures) /\ resetTissues
  \/ \E currentDepth \in QueryDepths : getDecoState(currentDepth)
  \/ \E currentDepth \in SimulationDepths : calculateDecoStops(currentDepth)
  \/ \E currentDepth \in SimulationDepths : calculateTTS(currentDepth)

SpecDeco == InitDeco /\ [][NextDeco]_vars

DecoQueried == ~IsNull(call) /\ call[1].op = "getDecoState"
FirstStopDepth(ceiling) == Mul(MathCeil(Div(ceiling, Three)), Three)

\* C20 - the decompression fields of a state agree: ceiling is a whole
\* number >= 0; ndl = -1 iff ceiling > 0; with ceiling 0 there are no stops;
\* with ceiling > 0 there is at least one stop, the stop depths are strictly
\* descending multiples of 3 between ceil(ceiling/3)*3 and 3, and every
\* duration is at least 1.
C20_DecoFieldsAgree ==
  DecoQueried =>
    LET state == call[1].result
        stops == state.decoStops
    IN /\ Whole(state.ceiling) /\ Ge(state.ceiling, Zero)
       /\ state.ndl = Neg(One) <=> Gt(state.ceiling, Zero)
       /\ state.ceiling = Zero => stops = << >>
       /\ Gt(state.ceiling, Zero) =>
            /\ stops # << >>
            /\ \A k \in 1 .. Len(stops) :
                 /\ Whole(Div(stops[k].depth, Three))
                 /\ Ge(stops[k].depth, Three)
                 /\ Le(stops[k].depth, FirstStopDepth(state.ceiling))
                 /\ Ge(stops[k].duration, One)
            /\ \A k \in 1 .. Len(stops) - 1 : Gt(stops[k].depth, stops[k + 1].depth)

\* a schedule of several stops that begins above the first stop depth
C20_Witness ==
  /\ DecoQueried
  /\ Gt(call[1].result.ceiling, Zero)
  /\ Len(call[1].result.decoStops) >= 2
  /\ Lt(call[1].result.decoStops[1].depth, FirstStopDepth(call[1].result.ceiling))

\* ------------------------------------------------- surface equilibrium
\* the dive of the loaded profile never leaves the surface
AtSurfaceThroughout ==
  \A k \in 1 .. Len(LoadedProfile.waypoints) : LoadedProfile.waypoints[k].depth = Zero
SurfaceSaturated(tissues) ==
  \A i \in Compartments : tissues[i] = SurfaceN2Pressure

\* C21 - surface equilibrium: on a profile whose depth is 0 throughout, every
\* compartment of the calculator and of the snapshot holds its
\* surface-saturation pressure after every sequence of operations, whatever
\* the times they advance by.
C21_SurfaceEquilibrium ==
  (Loaded /\ AtSurfaceThroughout) =>
    /\ SurfaceSaturated(decoCalculator[1].tissues)
    /\ SurfaceSaturated(Snapshot.deco.tissues)

\* a step of three minutes at the surface, after an earlier advance: air was
\* breathed for that time and the compartments are where they were
C21_Witness ==
  /\ Loaded /\ AtSurfaceThroughout
  /\ lastOp.op = "stepForward"
  /\ playback.stepSize = Num(180)
  /\ stepRun >= 2
  /\ Gt(airCalculator[1].totalAirConsumed, Zero)
  /\ SurfaceSaturated(Snapshot.deco.tissues)

\* what adding up the deltas of a pass in floating point may differ by from
\* the clock, which stepBackward sets by a multiplication: a millionth of a
\* minute
ClockTolerance == Dec(1, 1000000)

\* C22 - the models never run ahead of the clock: in every snapshot the time
\* applied to the tissue and air models since the last (re)load equals the
\* snapshot's currentTime, up to the rounding of the sum (so a stepForward at
\* the end of the dive, and the playback tick that is clamped to totalTime,
\* apply nothing beyond it).
C22_ModelsKeepToClock ==
  Loaded => Le(MathAbs(Sub(applied, Snapshot.currentTime)), ClockTolerance)

\* ------------------------------------------------------ gentle profiles
\* every segment of the profile ascends at MAX_ASCENT_RATE m/min or slower
Gentle(profile) ==
  \A k \in 1 .. Len(profile.waypoints) - 1 :
    Le(Sub(profile.waypoints[k].depth, profile.waypoints[k + 1].depth),
       Mul(MAX_ASCENT_RATE, Sub(profile.waypoints[k + 1].time, profile.waypoints[k].time)))
GentleIds == { p \in 1 .. Len(Profiles) : Gentle(Profiles[p]) }

\* the engine driven with gentle profiles only: playback ticks, steps and a
\* seek
NextGentle ==
  \/ \E p \in GentleIds : Within(MaxOps) /\ loadProfile(p)
  \/ Within(MaxOps) /\ play
  \/ Within(MaxOps) /\ stepForward
  \/ Within(MaxOps) /\ stepBackward
  \/ \E time \in ShortSeekTargets : Within(MaxOps) /\ seekTo(time)
  \/ \E dt \in FrameIntervals : Within(MaxOps) /\ animationFrame(dt)

SpecGentle == Init /\ [][NextGentle]_vars

\* C23 - no false fast-ascent alarm: while the loaded profile is gentle, no
\* snapshot (after a playback tick, a step or a seek) has ascent.isViolation
\* set or carries a FAST_ASCENT warning.
C23_NoFalseFastAscent ==
  (Loaded /\ Gentle(LoadedProfile)) =>
    /\ ~Snapshot.ascent.isViolation
    /\ \A w \in Range(Snapshot.activeWarnings) : w.code # "FAST_ASCENT"

\* the snapshot a first load of the loaded profile publishes
FirstLoadSnapshot == LoadProfile(UseDiveEngine, currentProfile).diveState

\* C24 - a reload is history-independent: the snapshot published by
\* loadProfile(P), by stop() and by seekTo(0) is the snapshot of a first load
\* of P, whatever the engine's state was before the call.
C24_ReloadForgetsHistory ==
  (Loaded /\ (lastOp.op \in {"loadProfile", "stop"}
                \/ (lastOp.op = "seekTo" /\ lastOp.arg = Zero)))
    => diveState = FirstLoadSnapshot

\* C25 - after every operation on a loaded engine (loadProfile, stop,
\* stepForward, stepBackward, seekTo, a playback tick) the published snapshot
\* describes the clock's instant: its currentTime is playback.currentTime and
\* its currentDepth is the rounded interpolated depth at that time.
C25_SnapshotAtClock ==
  Loaded =>
    /\ Snapshot.currentTime = playback.currentTime
    /\ Snapshot.currentDepth =
         RoundDepth(InterpolateDepth(playback.currentTime, LoadedProfile.waypoints))

\* C26 - seekTo and stepBackward change only the clock position and the
\* play/pause state: the speed and the step size set by setSpeed and
\* setStepSize are the same after them as before.
C26_SeekKeepsSettings ==
  [][ (Loaded /\ lastOp'.op \in {"seekTo", "stepBackward"})
        => /\ playback'.speed = playback.speed
           /\ playback'.stepSize = playback.stepSize ]_vars

\* ------------------------------------ the engine's saturation accessor
\* the getter of the engine's computed tissueSaturationPercentages:
\*   decoCalculator?.tissueSaturationPercentages.value ?? []
SaturationGetter(e) ==
  IF IsNull(e.deco) THEN [value |-> << >>, standing |-> "unbound"]
  ELSE [value |-> TissueSaturationPercentages(e.deco[1]), standing |-> "fresh"]

\* reading tissueSaturationPercentages.value: the getter runs on the first
\* read and when reactive state it read before has been assigned since;
\* otherwise the cached value is returned
ReadSaturations(e) ==
  IF IsNull(e.saturations) \/ e.saturations[1].standing = "dirty"
  THEN [e EXCEPT !.saturations = Some(SaturationGetter(e))]
  ELSE e

readSaturations ==
  /\ opCount' = opCount + 1
  /\ lastOp' = Op("tissueSaturationPercentages", Zero)
  /\ \E read \in { ReadSaturations(Engine) } :
       /\ Becomes(read)
       /\ call' = Some([ op |-> "tissueSaturationPercentages", args |-> << >>,
                         result |-> read.saturations[1].value ])
  /\ stepRun' = -1

\* the engine under loads, stops, seeks, steps and reads of the accessor
NextSaturation ==
  \/ \E p \in ProfileIds : Within(MaxOps) /\ loadProfile(p)
  \/ Within(MaxOps) /\ stop
  \/ Within(MaxOps) /\ stepForward
  \/ Within(MaxOps) /\ stepBackward
  \/ \E time \in ShortSeekTargets : Within(MaxOps) /\ seekTo(time)
  \/ Within(MaxOps) /\ readSaturations

SpecSaturation == Init /\ [][NextSaturation]_vars

\* C27 - the saturation accessor follows the live model: read on a loaded
\* engine, tissueSaturationPercentages holds 16 values, each in [0, 100], the
\* percentages of the tissue pressures of the current snapshot.
C27_SaturationsFollowModel ==
  (Loaded /\ lastOp.op = "tissueSaturationPercentages") =>
    LET read == call[1].result
    IN /\ Len(read) = NumCompartments
       /\ \A i \in 1 .. Len(read) : Le(Zero, read[i]) /\ Le(read[i], Hundred)
       /\ read = TissueSaturationPercentages(
                   [ tissues |-> Snapshot.deco.tissues,
                     gradientFactorLow |-> DefaultGFLow,
                     gradientFactorHigh |-> DefaultGFHigh ])

\* C28 - event effects are applied in schedule order: of two events that
\* set the SAC rate and have both fired in the pass, the one scheduled
\* strictly earlier was applied first (so that the rate reflects the later
\* one), whatever their order in the profile's list.
C28_EffectsInScheduleOrder ==
  Loaded =>
    \A i, j \in RateFirings :
      Lt(LoadedProfile.events[fired[i]].time, LoadedProfile.events[fired[j]].time)
        => i < j

\* the engine driven with the dive of the two events of one type and time
\* only: loads, stops, steps, step sizes and seeks to before and after the
\* events
TwinIds == { p \in 1 .. Len(Profiles) : Profiles[p] = ProfileTwins }
TwinSeekTargets == { Seconds(2), TenthsOfSecond(125), Seconds(24) }
NextTwins ==
  \/ \E p \in TwinIds : Within(MaxOps) /\ loadProfile(p)
  \/ Within(MaxOps) /\ stop
  \/ Within(MaxOps) /\ stepForward
  \/ Within(MaxOps) /\ stepBackward
  \/ \E time \in TwinSeekTargets : Within(MaxOps) /\ seekTo(time)
  \/ \E seconds \in StepSizes : Within(MaxOps) /\ setStepSize(seconds)

SpecTwins == Init /\ [][NextTwins]_vars

\* C29 - seek replay misses no event: after seekTo(T) on a loaded profile
\* every event scheduled at a time e with 0 <= e <= T has fired exactly once
\* in the replay, and no event with e >= T + 0.1 min has fired.
C29_SeekMissesNoEvent ==
  (Loaded /\ lastOp.op = "seekTo") =>
    \A k \in 1 .. Len(LoadedProfile.events) :
      LET e == LoadedProfile.events[k].time
          T == lastOp.arg
      IN /\ (Le(Zero, e) /\ Le(e, T)) => Count(fired, {k}) = 1
         /\ Ge(e, Add(T, EventWindow)) => Count(fired, {k}) = 0

\* the engine driven with the interrupted safety stop only: playback ticks,
\* steps and a seek into the second visit of the zone
ReturnIds == { p \in 1 .. Len(Profiles) : Profiles[p] = ProfileReturn }
ReturnSeekTargets == { Seconds(60) }
NextReturn ==
  \/ \E p \in ReturnIds : Within(MaxOps) /\ loadProfile(p)
  \/ Within(MaxOps) /\ play
  \/ Within(MaxOps) /\ stepForward
  \/ \E time \in ReturnSeekTargets : Within(MaxOps) /\ seekTo(time)
  \/ \E seconds \in StepSizes : Within(MaxOps) /\ setStepSize(seconds)
  \/ \E dt \in FrameIntervals : Within(MaxOps) /\ animationFrame(dt)

SpecReturn == Init /\ [][NextReturn]_vars

\* the stop is active exactly when maxDepth >= 10 m and 4 m <= depth <= 6 m
ActiveInZone(snapshot) ==
  snapshot.safetyStop.active <=>
    /\ Ge(snapshot.maxDepth, SafetyStopMinMaxDepth)
    /\ Ge(snapshot.currentDepth, SafetyStopZoneTop)
    /\ Le(snapshot.currentDepth, SafetyStopZoneBottom)

\* 0 <= remaining <= 180 s
RemainingInRange(snapshot) ==
  /\ Ge(snapshot.safetyStop.remaining, Zero)
  /\ Le(snapshot.safetyStop.remaining, SAFETY_STOP_DURATION)

\* a step or a frame publishes a snapshot delta later with the stop still
\* active: remaining has gone down by delta x 60 s, clamped at 0 (up to the
\* rounding of the difference of the two clock readings)
CountsDown ==
  ( /\ Loaded
    /\ lastOp'.op \in { "stepForward", "animationFrame" }
    /\ diveState' # diveState
    /\ Snapshot.safetyStop.active
    /\ diveState'[1].safetyStop.active )
  => Le(MathAbs(Sub(diveState'[1].safetyStop.remaining,
                    MathMax(Zero,
                            Sub(Snapshot.safetyStop.remaining,
                                Mul(Sub(diveState'[1].currentTime, Snapshot.currentTime),
                                    Sixty))))),
        Mul(ClockTolerance, Sixty))

\* C30 - safety-stop countdown: in every published snapshot the stop is
\* active exactly when maxDepth >= 10 m and 4 m <= currentDepth <= 6 m, and
\* 0 <= remaining <= 180 s; across an advance of delta during which the stop
\* stays active, remaining decreases by exactly delta x 60 s clamped at 0.
C30_SafetyStopCountdown ==
  /\ [](Loaded => ActiveInZone(Snapshot) /\ RemainingInRange(Snapshot))
  /\ [][CountsDown]_vars

\* C31 - the no-decompression limit is a sentinel or a count of minutes: in
\* every snapshot deco.ndl is -1 or a whole number between 0 and 999; a limit
\* without bound, the surface (depth <= 0) included, reads 999.
C31_NdlInRange ==
  Loaded =>
    LET ndl == DecoState(Snapshot).ndl
    IN ndl = Neg(One) \/ (Whole(ndl) /\ Ge(ndl, Zero) /\ Le(ndl, NoLimit))

\* the decompression calculator after MaxLongExposures exposures of up to a
\* thousand minutes at up to 10 m
MaxLongExposures == 1
LongDepths == { Metres(2), Metres(4), Metres(6), Metres(8), Metres(10) }
LongTimes == { One, Ten, Hundred, Num(500), Num(1000) }
LongQueryDepths == { Zero, Metres(3), Metres(6), Metres(10) }
NextLong ==
  \/ \E depth \in LongDepths, time \in LongTimes :
       Within(MaxLongExposures) /\ updateTissues(depth, time)
  \/ \E currentDepth \in LongQueryDepths : getDecoState(currentDepth)

SpecLong == InitDeco /\ [][NextLong]_vars

\* C33 - the stop simulation is capped: calculateDecoStops terminates (the
\* query returns a list of stops) and no recorded stop lasts longer than
\* 120 minutes.
C33_StopsCapped ==
  DecoQueried =>
    LET stops == call[1].result.decoStops
    IN /\ DOMAIN stops = 1 .. Len(stops)
       /\ \A k \in 1 .. Len(stops) :
            Whole(stops[k].duration) /\ Le(stops[k].duration, MaxStopTime)

\* getGFMValue called directly: every compartment, depths (metres) at,
\* between and beyond the ends, first stops below, at and above zero
GFDepths == { Zero, Dec(15, 10), Metres(3), Metres(6) }
GFFirstStops == { Num(-3), Zero, Metres(3), Metres(6) }

\* one call in a behaviour: the function keeps no state
getGFMValue(i, depth, firstStopDepth) ==
  /\ IsNull(call)
  /\ call' = Some([ op |-> "getGFMValue", args |-> << i, depth, firstStopDepth >>,
                    result |-> GetGFMValue(decoCalculator[1], i, depth, firstStopDepth) ])
  /\ UNCHANGED << decoCalculator, opCount >>
  /\ IdleEngine

NextGF ==
  \E i \in Compartments, depth \in GFDepths, firstStopDepth \in GFFirstStops :
    getGFMValue(i, depth, firstStopDepth)

SpecGF == InitDeco /\ [][NextGF]_vars

GFQueried == ~IsNull(call) /\ call[1].op = "getGFMValue"
\* the M-value of compartment i at a depth scaled by the gradient factor gf
Scaled(i, depth, gf) ==
  Add(GetAmbientPressure(depth),
      Mul(gf, Sub(GetMValue(i, depth), GetAmbientPressure(depth))))
\* the factor that is `atSurface` at depth 0 and `atStop` at the first stop,
\* linear in depth / firstStopDepth
Between(atSurface, atStop, depth, firstStopDepth) ==
  Add(atSurface, Mul(Sub(atStop, atSurface), Div(depth, firstStopDepth)))

\* C34 - the gradient factor of getGFMValue is gfHigh at depth =
\* firstStopDepth and gfLow at the surface, linear in depth / firstStopDepth
\* in between; with firstStopDepth <= 0 it is gfHigh at every depth (and the
\* call divides by nothing).
C34_FactorHighAtFirstStop ==
  GFQueried =>
    LET i == call[1].args[1]
        depth == call[1].args[2]
        firstStopDepth == call[1].args[3]
        gfLow == decoCalculator[1].gradientFactorLow
        gfHigh == decoCalculator[1].gradientFactorHigh
    IN /\ Le(firstStopDepth, Zero) => call[1].result = Scaled(i, depth, gfHigh)
       /\ (Gt(firstStopDepth, Zero) /\ Le(depth, firstStopDepth)) =>
            call[1].result = Scaled(i, depth, Between(gfLow, gfHigh, depth, firstStopDepth))

\* C34 as the code has it - the gradient factor of getGFMValue is gfLow at
\* depth = firstStopDepth and gfHigh at the surface, linear in
\* depth / firstStopDepth in between; with firstStopDepth <= 0 it is gfHigh
\* at every depth.
C34_FactorLowAtFirstStop ==
  GFQueried =>
    LET i == call[1].args[1]
        depth == call[1].args[2]
        firstStopDepth == call[1].args[3]
        gfLow == decoCalculator[1].gradientFactorLow
        gfHigh == decoCalculator[1].gradientFactorHigh
    IN /\ Le(firstStopDepth, Zero) => call[1].result = Scaled(i, depth, gfHigh)
       /\ (Gt(firstStopDepth, Zero) /\ Le(depth, firstStopDepth)) =>
            call[1].result = Scaled(i, depth, Between(gfHigh, gfLow, depth, firstStopDepth))

\* a query at the first stop itself, where the limit is below the one gfHigh
\* would give and within a millionth of a bar of the one gfLow gives
C34_Witness ==
  /\ GFQueried
  /\ Gt(call[1].args[3], Zero)
  /\ call[1].args[2] = call[1].args[3]
  /\ Le(MathAbs(Sub(call[1].result,
                    Scaled(call[1].args[1], call[1].args[2],
                           decoCalculator[1].gradientFactorLow))),
        Dec(1, 1000000))
  /\ Lt(call[1].result, Scaled(call[1].args[1], call[1].args[2],
                               decoCalculator[1].gradientFactorHigh))

\* C35 - decompression queries are read-only: getDecoState,
\* calculateDecoStops and calculateTTS (with the calculateCeiling and
\* calculateNDL they run) leave every live compartment's pN2 unchanged, the
\* stop simulation working on a clone, so a query made any number of times
\* between two updates returns the same result each time.
C35_QueriesReadOnly ==
  [][ (~IsNull(call') /\ call'[1].op \in QueryOps) =>
        /\ decoCalculator' = decoCalculator
        /\ call'[1].op = "getDecoState" =>
             call'[1].result.tissues = decoCalculator[1].tissues
        /\ \A k \in 1 .. Len(call'[1].earlier) :
             LET query == call'[1].earlier[k]
             IN (query.op = call'[1].op /\ query.args = call'[1].args) =>
                  query.result = call'[1].result ]_vars

\* the second of two getDecoState at the same depth that both ran the stop
\* simulation (there are stops to wait at): the live compartments are those
\* the query reported and the answer is that of the first
C35_Witness ==
  /\ DecoQueried
  /\ call[1].result.decoStops # << >>
  /\ Gt(call[1].result.decoStops[1].duration, One)
  /\ decoCalculator[1].tissues = call[1].result.tissues
  /\ Len(call[1].earlier) = 1
  /\ call[1].earlier[1].op = "getDecoState"
  /\ call[1].earlier[1].args = call[1].args
  /\ call[1].earlier[1].result = call[1].result

\* the air calculator called directly: events of every kind, with no value,
\* with the values 0, 0.5 and 2.5, a minute of breathing at 10 m, and resets
EventTypes ==
  { "breathingRateIncrease", "breathingRateDecrease", "airSharing", "airSharingEnd",
    "lowAirWarning", "criticalAirWarning", "rapidAscent", "safetyStopStart",
    "safetyStopEnd" }
EventValues == { Null, Some(Zero), Some(Half), Some(Dec(25, 10)) }
MaxBreaths == 2

InitAir ==
  /\ currentProfile = UseDiveEngine.currentProfile
  /\ playback = UseDiveEngine.playback
  /\ diveState = UseDiveEngine.diveState
  /\ airCalculator = Some(UseAirConsumption(Bar(200), Num(12), Num(20)))
  /\ decoCalculator = UseDiveEngine.deco
  /\ animationFrameId = UseDiveEngine.animationFrameId
  /\ sinceLastUpdate = UseDiveEngine.sinceLastUpdate
  /\ processedEvents = UseDiveEngine.processedEvents
  /\ maxDepth = UseDiveEngine.maxDepth
  /\ pending = UseDiveEngine.pending
  /\ fired = UseDiveEngine.fired
  /\ applied = UseDiveEngine.applied
  /\ tissueSaturationPercentages = UseDiveEngine.saturations
  /\ lastOp = Op("useAirConsumption", Zero)
  /\ opCount = 0
  /\ stepRun = -1
  /\ call = Null
  /\ UseLayout

IdleButAir ==
  /\ UNCHANGED << currentProfile, playback, diveState, decoCalculator, animationFrameId,
                  sinceLastUpdate, processedEvents, maxDepth, pending, fired, applied,
                  tissueSaturationPercentages, stepRun >>
  /\ IdleLayout

applyEvent(type, value) ==
  /\ airCalculator' = Some(ApplyEvent(airCalculator[1],
                                      [time |-> Zero, type |-> type, value |-> value,
                                       message |-> FALSE]))
  /\ call' = Some([op |-> "applyEvent", args |-> << type, value >>, result |-> Null])
  /\ lastOp' = Op("applyEvent", Zero)
  /\ UNCHANGED opCount
  /\ IdleButAir

consumeAir(depth, durationMinutes) ==
  /\ opCount < MaxBreaths
  /\ opCount' = opCount + 1
  /\ airCalculator' = Some(ConsumeAir(airCalculator[1], depth, durationMinutes))
  /\ call' = Some([op |-> "consumeAir", args |-> << depth, durationMinutes >>,
                   result |-> Null])
  /\ lastOp' = Op("consumeAir", Zero)
  /\ IdleButAir

reset ==
  /\ airCalculator' = Some(Reset(airCalculator[1]))
  /\ call' = Some([op |-> "reset", args |-> << >>, result |-> Null])
  /\ lastOp' = Op("reset", Zero)
  /\ UNCHANGED opCount
  /\ IdleButAir

NextAir ==
  \/ \E type \in EventTypes, value \in EventValues : applyEvent(type, value)
  \/ consumeAir(Metres(10), One)
  \/ reset

SpecAir == InitAir /\ [][NextAir]_vars

\* C36 - applyEvent sets the current SAC rate to baseline x v for a
\* breathingRateIncrease that specifies a multiplier v (every v, 0 included)
\* and to baseline x 1.5 when it specifies none, to baseline x 2 for
\* airSharing, and to the baseline for breathingRateDecrease and
\* airSharingEnd; the five other kinds leave the rate unchanged, and tank
\* pressure and consumed total are left as they were.
C36_EventSetsRate ==
  [][ (~IsNull(call') /\ call'[1].op = "applyEvent") =>
        LET type == call'[1].args[1]
            value == call'[1].args[2]
            before == airCalculator[1]
            after == airCalculator'[1]
        IN /\ type = "breathingRateIncrease" =>
                after.currentSacRate =
                  Mul(before.baseSacRate,
                      IF IsNull(value) THEN Dec(15, 10) ELSE value[1])
           /\ type = "airSharing" => after.currentSacRate = Mul(before.baseSacRate, Two)
           /\ type \in { "breathingRateDecrease", "airSharingEnd" } =>
                after.currentSacRate = before.baseSacRate
           /\ type \in { "lowAirWarning", "criticalAirWarning", "rapidAscent",
                         "safetyStopStart", "safetyStopEnd" } =>
                after.currentSacRate = before.currentSacRate
           /\ after.tankPressure = before.tankPressure
           /\ after.totalAirConsumed = before.totalAirConsumed ]_vars

\* interpolateDepth called directly: every list of up to MaxWaypoints
\* waypoints with non-decreasing times (minutes) and depths (metres) from
\* small sets, at times before, at, between and after them
MaxWaypoints == 4
WaypointTimes == { Zero, OneSecond, Seconds(2) }
WaypointDepths == { Zero, Metres(5), Metres(8) }
QueryTimes == { TenthsOfSecond(k) : k \in { -5, 0, 5, 10, 15, 20, 25 } }
NonDecreasing(waypoints) ==
  \A k \in 1 .. Len(waypoints) - 1 : Le(waypoints[k].time, waypoints[k + 1].time)
WaypointLists ==
  UNION { { w \in [1 .. n -> [time : WaypointTimes, depth : WaypointDepths]] :
              NonDecreasing(w) } : n \in 0 .. MaxWaypoints }

\* one call in a behaviour: the function keeps no state
interpolateDepth(time, waypoints) ==
  /\ IsNull(call)
  /\ call' = Some([ op |-> "interpolateDepth", args |-> << time, waypoints >>,
                    result |-> InterpolateDepth(time, waypoints) ])
  /\ Idle

NextInterpolate ==
  \E time \in QueryTimes, waypoints \in WaypointLists : interpolateDepth(time, waypoints)

SpecInterpolate == Init /\ [][NextInterpolate]_vars

Interpolated == ~IsNull(call) /\ call[1].op = "interpolateDepth"

\* what interpolateDepth returns inside the list's time range: the linear
\* interpolation on a bracketing segment with t1 > t0
OnBracketingSegment(t, waypoints, result) ==
  \E k \in 1 .. Len(waypoints) - 1 :
    LET t0 == waypoints[k].time
        t1 == waypoints[k + 1].time
        d0 == waypoints[k].depth
        d1 == waypoints[k + 1].depth
    IN /\ Gt(t1, t0) /\ Le(t0, t) /\ Le(t, t1)
       /\ result = Add(d0, Mul(Sub(d1, d0), Div(Sub(t, t0), Sub(t1, t0))))

\* C37 - for every waypoint list with non-decreasing times (equal
\* consecutive times allowed) and every time t, interpolateDepth divides by
\* no zero (its result is a finite number) and returns the first waypoint's
\* depth for t <= first time, the last waypoint's depth for t >= last time,
\* otherwise d0 + (d1 - d0)(t - t0) / (t1 - t0) on a bracketing segment with
\* t1 > t0; an empty list gives 0.
C37_InterpolationDefined ==
  Interpolated =>
    LET t == call[1].args[1]
        waypoints == call[1].args[2]
        result == call[1].result
        n == Len(waypoints)
    IN /\ IsFinite(result)
       /\ n = 0 => result = Zero
       /\ (n > 0 /\ Le(t, waypoints[1].time)) => result = waypoints[1].depth
       /\ (n > 0 /\ Ge(t, waypoints[n].time)) => result = waypoints[n].depth
       /\ (n > 0 /\ Gt(t, waypoints[1].time) /\ Lt(t, waypoints[n].time)) =>
            OnBracketingSegment(t, waypoints, result)

\* C37, amended - the clamp to the first waypoint is tested first: for
\* every waypoint list with non-decreasing times and every time t,
\* interpolateDepth divides by no zero (its result is a finite number) and
\* returns the first waypoint's depth for t <= first time, the last
\* waypoint's depth for t >= last time only when t > first time as well,
\* otherwise d0 + (d1 - d0)(t - t0) / (t1 - t0) on a bracketing segment with
\* t1 > t0; an empty list gives 0.
C37_FirstClampTestedFirst ==
  Interpolated =>
    LET t == call[1].args[1]
        waypoints == call[1].args[2]
        result == call[1].result
        n == Len(waypoints)
    IN /\ IsFinite(result)
       /\ n = 0 => result = Zero
       /\ (n > 0 /\ Le(t, waypoints[1].time)) => result = waypoints[1].depth
       /\ (n > 0 /\ Ge(t, waypoints[n].time) /\ Gt(t, waypoints[1].time)) =>
            result = waypoints[n].depth
       /\ (n > 0 /\ Gt(t, waypoints[1].time) /\ Lt(t, waypoints[n].time)) =>
            OnBracketingSegment(t, waypoints, result)

\* a query at the time that all the waypoints of a list share, the first and
\* the last at different depths: the answer is defined and is the depth of
\* the first waypoint
C37_Witness ==
  /\ Interpolated
  /\ Len(call[1].args[2]) >= 2
  /\ call[1].args[2][1].time = call[1].args[2][Len(call[1].args[2])].time
  /\ call[1].args[2][1].depth # call[1].args[2][Len(call[1].args[2])].depth
  /\ call[1].args[1] = call[1].args[2][1].time
  /\ call[1].result = call[1].args[2][1].depth

\* C38 - pause() changes the playback state only when it is 'playing':
\* called while the state is 'stopped' (profile loaded or not) it leaves the
\* state 'stopped'.
C38_PauseOnlyWhilePlaying ==
  [][ (lastOp'.op = "pause" /\ opCount' = opCount + 1 /\ playback.state # "playing") =>
        playback'.state = playback.state ]_vars

\* the engine driven with the tank near the reserve only
ReserveIds == { p \in 1 .. Len(Profiles) : Profiles[p] = ProfileReserve }
NextReserve ==
  \/ \E p \in ReserveIds : Within(MaxOps) /\ loadProfile(p)
  \/ Within(MaxOps) /\ play
  \/ Within(MaxOps) /\ stop
  \/ Within(MaxOps) /\ stepForward
  \/ Within(MaxOps) /\ stepBackward
  \/ \E time \in ShortSeekTargets : Within(MaxOps) /\ seekTo(time)
  \/ \E seconds \in StepSizes : Within(MaxOps) /\ setStepSize(seconds)
  \/ \E dt \in FrameIntervals : Within(MaxOps) /\ animationFrame(dt)

SpecReserve == Init /\ [][NextReserve]_vars

\* C32 - air warnings match the published pressure: in every snapshot
\* CRITICAL_AIR is among the active warnings if and only if the snapshot's
\* air.tankPressure <= 20, and LOW_AIR if and only if
\* 20 < air.tankPressure <= 50.
C32_AirWarningsMatchPressure ==
  Loaded =>
    LET codes == Range(Codes(Snapshot.activeWarnings))
        tankPressure == Snapshot.air.tankPressure
    IN /\ "CRITICAL_AIR" \in codes <=> Le(tankPressure, CriticalAirBar)
       /\ "LOW_AIR" \in codes <=>
            (Lt(CriticalAirBar, tankPressure) /\ Le(tankPressure, LowAirBar))

\* ------------------------------------------------------------ useLayout.ts
\* The composable as one record L of its refs and of the calls in flight.
\* A call in flight is [id, fn, layoutId, at, parent]: `at` is the await it
\* is suspended at ("fetch", "json", "child" for loadLayoutsIndex awaiting
\* the loadLayout it started, "resume" once that one has settled), parent
\* the id of the loadLayoutsIndex awaiting it (0: none). A layout's config
\* is known by the layout's id.
Layout ==
  [ layouts |-> layouts, selectedLayoutId |-> selectedLayoutId,
    layoutConfig |-> layoutConfig, loading |-> loading, error |-> error,
    loads |-> loads ]

LayoutBecomes(L) ==
  \E next \in {L} :
    /\ layouts' = next.layouts
    /\ selectedLayoutId' = next.selectedLayoutId
    /\ layoutConfig' = next.layoutConfig
    /\ loading' = next.loading
    /\ error' = next.error
    /\ loads' = next.loads

IdleDive ==
  UNCHANGED << currentProfile, playback, diveState, airCalculator, decoCalculator,
               animationFrameId, sinceLastUpdate, processedEvents, maxDepth, pending,
               fired, applied, tissueSaturationPercentages, stepRun >>

LoadOf(L, id) == CHOOSE load \in Range(L.loads) : load.id = id
Suspend(L, id, at) ==
  [L EXCEPT !.loads = Array(Len(L.loads), LAMBDA k :
                         IF L.loads[k].id = id THEN [L.loads[k] EXCEPT !.at = at]
                         ELSE L.loads[k])]

\* a promise settles: the call leaves the calls in flight and the
\* loadLayoutsIndex awaiting it, if any, is due to resume
Settle(L, id) ==
  LET parent == LoadOf(L, id).parent
      rest == [L EXCEPT !.loads = SelectSeq(L.loads, LAMBDA load : load.id # id)]
  IN IF parent = 0 THEN rest ELSE Suspend(rest, parent, "resume")

\* catch (e) { error.value = ... } finally { loading.value = false }
Fail(L, id, message) ==
  LET caught == [L EXCEPT !.error = Some(message), !.loading = FALSE]
  IN IF \E load \in Range(L.loads) : load.id = id THEN Settle(caught, id) ELSE caught

\* layouts.value after `layouts.value = data.layouts` with a body that has
\* no `layouts`: undefined, on which .length and .find throw a TypeError
Undefined == << "undefined" >>

\* layouts.value.find((l) => l.id === layoutId) finds an entry
Found(L, layoutId) == L.layouts # Undefined /\ layoutId \in Range(L.layouts)

\* loadLayout(layoutId), up to its first await; the config is set only on
\* success
LoadLayout(L, id, layoutId, parent) ==
  LET started == [L EXCEPT !.loading = TRUE, !.error = Null]
  IN IF L.layouts = Undefined THEN Fail(started, id, "TypeError")
     ELSE IF ~Found(L, layoutId) THEN Fail(started, id, "non trouve")
     ELSE [started EXCEPT !.loads = Append(L.loads,
             [id |-> id, fn |-> "loadLayout", layoutId |-> layoutId, at |-> "fetch",
              parent |-> parent])]

\* the config's fetch answers
LayoutResponse(L, id, ok) ==
  IF ok THEN Suspend(L, id, "json") ELSE Fail(L, id, "Erreur de chargement du layout")

\* response.json() answers: validateLayoutConfig, then the assignments; a
\* body that is no JSON is one that is not valid (response.json() rejects,
\* and the catch is the same)
LayoutParsed(L, id, valid) ==
  IF ~valid THEN Fail(L, id, "invalide")
  ELSE Settle([L EXCEPT !.layoutConfig = Some(LoadOf(L, id).layoutId),
                        !.selectedLayoutId = LoadOf(L, id).layoutId,
                        !.loading = FALSE], id)

\* the calls made (MaxLoads of them) and the id of the loadLayout that the
\* call id of loadLayoutsIndex starts
MaxLoads == 3
ChildId(id) == id + MaxLoads

\* loadLayoutsIndex(), up to its first await
LoadLayoutsIndex(L, id) ==
  [L EXCEPT !.loading = TRUE, !.error = Null,
            !.loads = Append(L.loads,
              [id |-> id, fn |-> "loadLayoutsIndex", layoutId |-> "", at |-> "fetch",
               parent |-> 0])]

IndexResponse(L, id, ok) ==
  IF ok THEN Suspend(L, id, "json")
  ELSE Fail(L, id, "Erreur de chargement de la liste des layouts")

\* response.json() answers. When it rejects (the body is no JSON) the catch
\* sets the error. Else layouts.value = data.layouts, and the default layout
\* (or the first one) is loaded when no config is there yet; with a body
\* that has no `layouts`, layouts.value is undefined and
\* layouts.value.length throws, to the same catch.
IndexParsed(L, id, body) ==
  LET data == body.layouts
      listed == [L EXCEPT !.layouts = data]
      defaultLayout == IF "default" \in Range(data) THEN "default" ELSE data[1]
  IN IF ~body.parsed THEN Fail(L, id, "SyntaxError")
     ELSE IF data = Undefined THEN Fail(listed, id, "TypeError")
     ELSE IF Len(data) > 0 /\ IsNull(L.layoutConfig)
     THEN LoadLayout(Suspend(listed, id, "child"), ChildId(id), defaultLayout, id)
     ELSE Settle([listed EXCEPT !.loading = FALSE], id)

\* what indexParsed does to the call: it fails, awaits the loadLayout it
\* started, or has loaded
IndexParsedOutcome(L, body) ==
  IF ~body.parsed \/ body.layouts = Undefined THEN "failed"
  ELSE IF Len(body.layouts) > 0 /\ IsNull(L.layoutConfig) THEN "pending"
  ELSE "loaded"

\* loadLayoutsIndex resumes after `await loadLayout(...)`: finally
IndexResumed(L, id) == Settle([L EXCEPT !.loading = FALSE], id)

\* the layouts asked for and the answers of the server
LayoutIdsAsked == { "default", "compact", "nonexistent" }
IndexData == { << "default", "compact" >>, << "compact" >>, << >> }
\* the bodies the index's fetch answers with: JSON with a `layouts` array,
\* JSON without one, and no JSON
IndexBodies ==
  [parsed : { TRUE }, layouts : IndexData \cup { Undefined }]
    \cup { [parsed |-> FALSE, layouts |-> Undefined] }

\* what the last step did to a call: it is still pending, has loaded or has
\* failed; the promise of the call is pending or fulfilled (every throw is
\* caught inside the call)
Event(op, id, layoutId, outcome) ==
  Some([op |-> op, args |-> << layoutId >>,
        result |-> [id |-> id, outcome |-> outcome,
                    promise |-> IF outcome = "pending" THEN "pending" ELSE "fulfilled"]])

Suspended(fn, at) == { load \in Range(loads) : load.fn = fn /\ load.at = at }

loadLayout(layoutId) ==
  /\ opCount < MaxLoads
  /\ opCount' = opCount + 1
  /\ lastOp' = Op("loadLayout", Num(opCount + 1))
  /\ LayoutBecomes(LoadLayout(Layout, opCount + 1, layoutId, 0))
  /\ call' = Event("loadLayout", opCount + 1, layoutId,
                   IF Found(Layout, layoutId) THEN "pending" ELSE "failed")
  /\ IdleDive

layoutResponse(ok) ==
  \E load \in Suspended("loadLayout", "fetch") :
    /\ LayoutBecomes(LayoutResponse(Layout, load.id, ok))
    /\ call' = Event("loadLayout", load.id, load.layoutId,
                     IF ok THEN "pending" ELSE "failed")
    /\ lastOp' = Op("response", Num(load.id))
    /\ UNCHANGED opCount
    /\ IdleDive

layoutParsed(valid) ==
  \E load \in Suspended("loadLayout", "json") :
    /\ LayoutBecomes(LayoutParsed(Layout, load.id, valid))
    /\ call' = Event("loadLayout", load.id, load.layoutId,
                     IF valid THEN "loaded" ELSE "failed")
    /\ lastOp' = Op("json", Num(load.id))
    /\ UNCHANGED opCount
    /\ IdleDive

loadLayoutsIndex ==
  /\ opCount < MaxLoads
  /\ opCount' = opCount + 1
  /\ lastOp' = Op("loadLayoutsIndex", Num(opCount + 1))
  /\ LayoutBecomes(LoadLayoutsIndex(Layout, opCount + 1))
  /\ call' = Event("loadLayoutsIndex", opCount + 1, "", "pending")
  /\ IdleDive

indexResponse(ok) ==
  \E load \in Suspended("loadLayoutsIndex", "fetch") :
    /\ LayoutBecomes(IndexResponse(Layout, load.id, ok))
    /\ call' = Event("loadLayoutsIndex", load.id, "", IF ok THEN "pending" ELSE "failed")
    /\ lastOp' = Op("response", Num(load.id))
    /\ UNCHANGED opCount
    /\ IdleDive

indexParsed(body) ==
  \E load \in Suspended("loadLayoutsIndex", "json") :
    /\ LayoutBecomes(IndexParsed(Layout, load.id, body))
    /\ call' = Event("loadLayoutsIndex", load.id, "", IndexParsedOutcome(Layout, body))
    /\ lastOp' = Op("json", Num(load.id))
    /\ UNCHANGED opCount
    /\ IdleDive

indexResumed ==
  \E load \in Suspended("loadLayoutsIndex", "resume") :
    /\ LayoutBecomes(IndexResumed(Layout, load.id))
    /\ call' = Event("loadLayoutsIndex", load.id, "", "loaded")
    /\ lastOp' = Op("resume", Num(load.id))
    /\ UNCHANGED opCount
    /\ IdleDive

NextLayout ==
  \/ \E layoutId \in LayoutIdsAsked : loadLayout(layoutId)
  \/ \E ok \in BOOLEAN : layoutResponse(ok)
  \/ \E valid \in BOOLEAN : layoutParsed(valid)
  \/ loadLayoutsIndex
  \/ \E ok \in BOOLEAN : indexResponse(ok)
  \/ \E body \in IndexBodies : indexParsed(body)
  \/ indexResumed

SpecLayout == Init /\ [][NextLayout]_vars

\* C39 - the loading flag of useLayout is true exactly while a load is in
\* flight: true from the start of loadLayoutsIndex or loadLayout until the
\* call settles, with overlapping calls until the last of them has settled,
\* and false when no load is in flight.
C39_LoadingWhileInFlight == loading <=> loads # << >>

\* C40 - a loadLayout that fails (id absent from the index, config fetch not
\* ok, config not valid) does not throw, sets error to a message and leaves
\* layoutConfig and selectedLayoutId as they were; a loadLayout that
\* succeeds sets error back to null.
C40_FailedLoadKeepsLayout ==
  [][ (~IsNull(call') /\ << call', loads', error' >> # << call, loads, error >>) =>
        LET result == call'[1].result
        IN /\ result.promise \in { "pending", "fulfilled" }
           /\ (call'[1].op = "loadLayout" /\ result.outcome = "failed") =>
                /\ result.promise = "fulfilled"
                /\ error' # Null
                /\ layoutConfig' = layoutConfig
                /\ selectedLayoutId' = selectedLayoutId
           /\ (call'[1].op = "loadLayout" /\ result.outcome = "loaded") =>
                error' = Null ]_vars

====
